---- MODULE Spec2Model ----
(***************************************************************************)
(* CRIMSON-REDLINE: the player progression and event-resolution engine.    *)
(*                                                                         *)
(*   game/state.rs       GameState and its mutators                        *)
(*   game/events.rs      EventManager: generate_event / handle_choice      *)
(*   game/reputation.rs  ReputationLevel table and ReputationManager       *)
(*   game/mod.rs         Mission, the mission catalog, SaveGame            *)
(*   auth/mod.rs         User and AuthSystem                               *)
(*   commands/handler.rs CommandHandler::execute and its handlers          *)
(*   main.rs             run_terminal_session                              *)
(*                                                                         *)
(* i32 fields keep their 32-bit width.  An i32 overflow panics in a build  *)
(* with overflow checks and wraps in a build without them; both builds     *)
(* are modelled.  f32 heat values are kept in hundredths of a degree:      *)
(* every heat amount added here is a small whole number, which f32 adds    *)
(* exactly, and a product with a decay rate is cut to hundredths.          *)
(* The f32 multiplier is modelled in hundredths (1.1 is 110).              *)
(***************************************************************************)
EXTENDS Integers, Sequences, FiniteSets, TLC

VARIABLES
    game_state,      \* the GameState record (state.rs:8-26)
    event_manager,   \* the EventManager record (events.rs:10-15)
    rep_manager,     \* the ReputationManager record (reputation.rs:8-15)
    now,             \* wall clock read by chrono::Utc::now(), in seconds
    probe,           \* input and results of the last ReputationLevel lookup
    call,            \* the last call made: [op, arg, ret]
    overflow_checks, \* the build: TRUE when i32 overflow panics, FALSE when it wraps
    panicked,        \* TRUE once an arithmetic overflow has aborted the process
    auth_system,     \* the AuthSystem: stored users and the current user (auth/mod.rs:73-77)
    session,         \* the terminal session of main.rs: its user copy and whether it runs
    mission,         \* a Mission built by Mission::new, add_objective and update_objective (game/mod.rs:72-83)
    network_map,     \* the NetworkMap of the GameState (state.rs:196-199)
    save_file,       \* the save file game_state.db: None or Some of its bytes (game/mod.rs:65-68)
    steps            \* number of calls made so far

vars == <<steps, now, game_state, event_manager, rep_manager, probe,
          auth_system,
          session,
          mission,
          network_map,
          save_file,
          overflow_checks, panicked, call>>

-----------------------------------------------------------------------------
(* Bounds of the model *)

MaxSteps == 4          \* calls per behaviour of Spec
MaxEvents == 2         \* generate_event calls that produce an event
MaxRepSteps == 7       \* calls per behaviour of SpecRep
MaxProbe == 5100       \* largest reputation looked up in SpecLevel
MaxObjectives == 2     \* objectives added to the mission of SpecObjectives
MaxMissionSteps == 5   \* calls per behaviour of SpecObjectives
MaxAuthSteps == 8      \* calls per behaviour of SpecAuth
MaxSaveSteps == 4      \* calls per behaviour of SpecSave
MaxRunSteps == 52      \* calls per behaviour of SpecRun

-----------------------------------------------------------------------------
(* i32 arithmetic *)

MaxI32 == 2147483647
MinI32 == -MaxI32 - 1

Max(a, b) == IF a >= b THEN a ELSE b
Min(a, b) == IF a <= b THEN a ELSE b

None == <<>>
Some(x) == <<x>>

\* a + b does not fit in an i32
AddOverflows(a, b) ==
    \/ b > 0 /\ a > MaxI32 - b
    \/ b < 0 /\ a < MinI32 - b

\* a - b does not fit in an i32
SubOverflows(a, b) ==
    \/ b < 0 /\ a > MaxI32 + b
    \/ b > 0 /\ a < MinI32 + b

\* two's complement a + b
WrappingAdd(a, b) ==
    IF b > 0 /\ a > MaxI32 - b THEN (a - MaxI32 - 1) + (b - MaxI32 - 1)
    ELSE IF b < 0 /\ a < MinI32 - b THEN (a + MaxI32 + 1) + (b + MaxI32 + 1)
    ELSE a + b

\* two's complement a - b
WrappingSub(a, b) ==
    IF b < 0 /\ a > MaxI32 + b THEN (a - MaxI32 - 1) - (b + MaxI32 + 1)
    ELSE IF b > 0 /\ a < MinI32 + b THEN (a + MaxI32 + 1) - (b - MaxI32 - 1)
    ELSE a - b

\* The outcome of the i32 expression a + b, as a one-element set: the sum,
\* or on overflow a panic (ok = FALSE) in a build with overflow checks and
\* the wrapped sum in a build without.
I32Add(a, b) ==
    IF AddOverflows(a, b)
    THEN IF overflow_checks THEN {[ok |-> FALSE, v |-> 0]}
         ELSE {[ok |-> TRUE, v |-> WrappingAdd(a, b)]}
    ELSE {[ok |-> TRUE, v |-> a + b]}

\* The outcome of the i32 expression a - b.
I32Sub(a, b) ==
    IF SubOverflows(a, b)
    THEN IF overflow_checks THEN {[ok |-> FALSE, v |-> 0]}
         ELSE {[ok |-> TRUE, v |-> WrappingSub(a, b)]}
    ELSE {[ok |-> TRUE, v |-> a - b]}

-----------------------------------------------------------------------------
(* GameState (game/state.rs).  Every mutator is an operator from a         *)
(* GameState to the set of its outcomes [panicked, gs, ret]: gs is the     *)
(* GameState after the call and ret the returned value (None for unit).    *)

Done(gs, ret) == [panicked |-> FALSE, gs |-> gs, ret |-> ret]
Panic(gs) == [panicked |-> TRUE, gs |-> gs, ret |-> None]

\* Sequential composition: run F on the GameState of every outcome that did
\* not panic.
AndThen(outcomes, F(_)) ==
    UNION { IF o.panicked THEN {o} ELSE F(o.gs) : o \in outcomes }

Contains(seq, x) == \E i \in 1..Len(seq) : seq[i] = x

\* Vec::iter().position(): index of the first element equal to x, 0 if none
Position(seq, x) ==
    IF Contains(seq, x)
    THEN CHOOSE i \in 1..Len(seq) : seq[i] = x /\ \A j \in 1..(i - 1) : seq[j] # x
    ELSE 0

\* Vec::truncate in the place of Vec::remove: drops the element at pos and all
\* that follow it
Remove_truncates(seq, pos) == [i \in 1..(pos - 1) |-> seq[i]]

\* Vec::remove(pos)
Remove(seq, pos) == [i \in 1..(Len(seq) - 1) |-> IF i < pos THEN seq[i] ELSE seq[i + 1]]

\* heat_level: f32 is kept in hundredths of a degree; the arguments of
\* increase_heat and decrease_heat and the heat amounts of events are whole
\* degrees
HeatUnit == 100

GameState_new(starting_reputation) ==
    [ reputation |-> starting_reputation,
      heat_level |-> 0,
      credits |-> 1000,
      missions_completed |-> 0,
      active_missions |-> <<>>,
      completed_missions |-> <<>>,
      unlocked_tools |-> <<"scan", "decrypt">>,
      discovered_exploits |-> <<>> ]

add_reputation(gs, amount) ==
    { IF r.ok THEN Done([gs EXCEPT !.reputation = Max(r.v, 0)], None) ELSE Panic(gs)
        : r \in I32Add(gs.reputation, amount) }

\* increase_heat without the cap at 100
increase_heat_uncapped(gs, amount) ==
    { Done([gs EXCEPT !.heat_level = gs.heat_level + amount * HeatUnit], None) }

increase_heat(gs, amount) ==
    { Done([gs EXCEPT !.heat_level = Min(gs.heat_level + amount * HeatUnit, 100 * HeatUnit)], None) }

decrease_heat(gs, amount) ==
    { Done([gs EXCEPT !.heat_level = Max(gs.heat_level - amount * HeatUnit, 0)], None) }

\* a / b cut toward zero, for b > 0
TruncDiv(a, b) == IF a >= 0 THEN a \div b ELSE -((-a) \div b)

\* decay_rate: f32 is in hundredths (0.99 is 99)
apply_heat_decay(gs, decay_rate) ==
    { Done([gs EXCEPT !.heat_level = Max(TruncDiv(gs.heat_level * decay_rate, 100), 0)],
           None) }

add_credits(gs, amount) ==
    { IF r.ok THEN Done([gs EXCEPT !.credits = Max(r.v, 0)], None) ELSE Panic(gs)
        : r \in I32Add(gs.credits, amount) }

spend_credits(gs, amount) ==
    IF gs.credits >= amount
    THEN { IF r.ok THEN Done([gs EXCEPT !.credits = r.v], Some(TRUE)) ELSE Panic(gs)
             : r \in I32Sub(gs.credits, amount) }
    ELSE { Done(gs, Some(FALSE)) }

\* complete_mission that forgets to take the id out of active_missions
complete_mission_keeps_active(gs, mission_id) ==
    IF Contains(gs.active_missions, mission_id)
    THEN { Done([gs EXCEPT !.completed_missions = Append(gs.completed_missions, mission_id),
                           !.missions_completed = gs.missions_completed + 1], None) }
    ELSE { Done(gs, None) }

complete_mission(gs, mission_id) ==
    LET pos == Position(gs.active_missions, mission_id) IN
    IF pos # 0
    THEN { Done([gs EXCEPT !.active_missions = Remove(gs.active_missions, pos),
                           !.completed_missions = Append(gs.completed_missions, mission_id),
                           !.missions_completed = gs.missions_completed + 1], None) }
    ELSE { Done(gs, None) }

\* start_mission that only looks at active_missions
start_mission_ignores_completed(gs, mission_id) ==
    IF ~Contains(gs.active_missions, mission_id)
    THEN { Done([gs EXCEPT !.active_missions = Append(gs.active_missions, mission_id)], None) }
    ELSE { Done(gs, None) }

start_mission(gs, mission_id) ==
    IF ~Contains(gs.active_missions, mission_id) /\ ~Contains(gs.completed_missions, mission_id)
    THEN { Done([gs EXCEPT !.active_missions = Append(gs.active_missions, mission_id)], None) }
    ELSE { Done(gs, None) }

unlock_tool(gs, tool) ==
    IF ~Contains(gs.unlocked_tools, tool)
    THEN { Done([gs EXCEPT !.unlocked_tools = Append(gs.unlocked_tools, tool)], None) }
    ELSE { Done(gs, None) }

discover_exploit(gs, exploit) ==
    IF ~Contains(gs.discovered_exploits, exploit)
    THEN { Done([gs EXCEPT !.discovered_exploits = Append(gs.discovered_exploits, exploit)], None) }
    ELSE { Done(gs, None) }

-----------------------------------------------------------------------------
(* Random events (game/events.rs) *)

\* EventOutcome
GainCredits(n) == [type |-> "GainCredits", n |-> n, s |-> ""]
GainReputation(n) == [type |-> "GainReputation", n |-> n, s |-> ""]
ReduceHeat(n) == [type |-> "ReduceHeat", n |-> n, s |-> ""]
IncreaseHeat(n) == [type |-> "IncreaseHeat", n |-> n, s |-> ""]
UnlockContent(s) == [type |-> "UnlockContent", n |-> 0, s |-> s]
MaintainAccess == [type |-> "MaintainAccess", n |-> 0, s |-> ""]
SafeExit == [type |-> "SafeExit", n |-> 0, s |-> ""]
Special(s) == [type |-> "Special", n |-> 0, s |-> s]

\* EventCost
Credits(n) == [type |-> "Credits", n |-> n]
Reputation(n) == [type |-> "Reputation", n |-> n]
Heat(n) == [type |-> "Heat", n |-> n]
Time(n) == [type |-> "Time", n |-> n]

EventChoice(outcome, cost) == [outcome |-> outcome, cost |-> cost]

RandomEvent(id, event_type, severity, choices, time_limit) ==
    [id |-> id, event_type |-> event_type, severity |-> severity,
     choices |-> choices, time_limit |-> time_limit]

high_heat_events ==
    << RandomEvent("trace_initiated", "Threat", "Critical",
         << EventChoice(ReduceHeat(30), Some(Credits(100))),
            EventChoice(ReduceHeat(50), Some(Reputation(20))),
            EventChoice(IncreaseHeat(20), None) >>, Some(30)),
       RandomEvent("system_lockdown", "Threat", "High",
         << EventChoice(MaintainAccess, Some(Heat(25))),
            EventChoice(SafeExit, None) >>, Some(20)) >>

high_reputation_events ==
    << RandomEvent("elite_invitation", "Opportunity", "Low",
         << EventChoice(UnlockContent("elite_tools"), Some(Reputation(50))),
            EventChoice(GainReputation(10), None) >>, None),
       RandomEvent("black_market_deal", "Opportunity", "Medium",
         << EventChoice(UnlockContent("zero_day_pack"), Some(Credits(500))),
            EventChoice(Special("negotiation"), Some(Reputation(10))),
            EventChoice(ReduceHeat(20), Some(Reputation(30))) >>, Some(60)) >>

opportunity_events ==
    << RandomEvent("vulnerable_system", "Opportunity", "Low",
         << EventChoice(GainCredits(200), Some(Heat(15))),
            EventChoice(UnlockContent("saved_target"), None) >>, Some(45)),
       RandomEvent("data_cache", "Opportunity", "Low",
         << EventChoice(GainCredits(100), Some(Time(30))),
            EventChoice(Special("encrypted_file"), None) >>, None),
       RandomEvent("backdoor_found", "Opportunity", "Medium",
         << EventChoice(MaintainAccess, None),
            EventChoice(Special("persistent_access"), Some(Heat(10))),
            EventChoice(GainReputation(25), None) >>, None) >>

threat_events ==
    << RandomEvent("honeypot", "Threat", "High",
         << EventChoice(SafeExit, Some(Reputation(5))),
            EventChoice(ReduceHeat(10), Some(Credits(50))),
            EventChoice(Special("honeypot_reversed"), Some(Heat(30))) >>, Some(15)),
       RandomEvent("rival_hacker", "Threat", "Medium",
         << EventChoice(Special("race_rival"), Some(Heat(20))),
            EventChoice(GainReputation(15), None),
            EventChoice(Special("sabotage"), Some(Reputation(10))) >>, Some(30)),
       RandomEvent("ai_defense", "Threat", "Critical",
         << EventChoice(Special("ai_battle"), Some(Heat(40))),
            EventChoice(MaintainAccess, Some(Credits(150))),
            EventChoice(SafeExit, None) >>, Some(20)) >>

Elements(seq) == { seq[i] : i \in 1..Len(seq) }

\* event_chance is in hundredths, like the draws of should_trigger_event
EventManager_new ==
    [ active_events |-> <<>>,
      event_history |-> <<>>,
      event_chance |-> 10,
      last_event_time |-> None ]

\* rng.gen::<f32>() is uniform in [0, 1): the draws, in hundredths
TriggerDraws == {0, 9, 10, 99}

\* draw is the number rng.gen::<f32>() returns
should_trigger_event(em, draw) == draw < em.event_chance

\* the category test of generate_event with the reputation asked first
event_pools_reputation_first(heat_level, reputation) ==
    IF reputation > 1000 THEN {high_reputation_events}
    ELSE IF heat_level > 75 * HeatUnit THEN {high_heat_events}
    ELSE {opportunity_events, threat_events}

\* The pools generate_event may draw from: one pool, or either general pool
\* on the second random draw
event_pools(heat_level, reputation) ==
    IF heat_level > 75 * HeatUnit THEN {high_heat_events}
    ELSE IF reputation > 1000 THEN {high_reputation_events}
    ELSE {opportunity_events, threat_events}

\* generate_event that does not push the event to event_history
generate_event_skips_history(em, heat_level, reputation, time) ==
    LET generated == UNION { Elements(pool) : pool \in event_pools(heat_level, reputation) }
    IN  UNION {
          IF ~should_trigger_event(em, draw)
          THEN {[em |-> em, ret |-> None]}
          ELSE { [em |-> [em EXCEPT !.last_event_time = Some(time),
                                    !.active_events = Append(em.active_events, event)],
                  ret |-> Some(event)] : event \in generated }
            : draw \in TriggerDraws }

\* The outcomes [em, ret] of generate_event: the trigger check fails and
\* nothing changes, or one template of the selected pool is recorded.
generate_event(em, heat_level, reputation, time) ==
    LET generated == UNION { Elements(pool) : pool \in event_pools(heat_level, reputation) }
    IN  UNION {
          IF ~should_trigger_event(em, draw)
          THEN {[em |-> em, ret |-> None]}
          ELSE { [em |-> [em EXCEPT !.last_event_time = Some(time),
                                    !.event_history = Append(em.event_history, event),
                                    !.active_events = Append(em.active_events, event)],
                  ret |-> Some(event)] : event \in generated }
            : draw \in TriggerDraws }

handle_special_outcome(gs, action) ==
    CASE action = "negotiation" ->
            add_credits(gs, 250) \cup {Done(gs, None)}
      [] action = "race_rival" ->
            AndThen(add_reputation(gs, 30), LAMBDA g : add_credits(g, 300))
            \cup add_reputation(gs, -10)
      [] action = "ai_battle" ->
            AndThen(add_reputation(gs, 100), LAMBDA g : discover_exploit(g, "AI_Slayer"))
            \cup increase_heat(gs, 50)
      [] OTHER -> {Done(gs, None)}

\* apply_cost that takes whatever credits there are when they do not cover
\* the cost, and lets the choice go through
apply_cost_partial_payment(gs, cost) ==
    IF Len(cost) = 0 THEN {Done(gs, None)}
    ELSE CASE cost[1].type = "Credits" ->
                IF gs.credits >= cost[1].n THEN spend_credits(gs, cost[1].n)
                ELSE {Done([gs EXCEPT !.credits = 0], Some(TRUE))}
           [] cost[1].type = "Reputation" -> add_reputation(gs, -cost[1].n)
           [] cost[1].type = "Heat" -> increase_heat(gs, cost[1].n)
           [] cost[1].type = "Time" -> {Done(gs, None)}

\* The cost phase of handle_choice; ret is Some(FALSE) when spend_credits
\* refused.
apply_cost(gs, cost) ==
    IF Len(cost) = 0 THEN {Done(gs, None)}
    ELSE CASE cost[1].type = "Credits" -> spend_credits(gs, cost[1].n)
           [] cost[1].type = "Reputation" -> add_reputation(gs, -cost[1].n)
           [] cost[1].type = "Heat" -> increase_heat(gs, cost[1].n)
           [] cost[1].type = "Time" -> {Done(gs, None)}

\* The outcome phase of handle_choice
apply_outcome(gs, outcome) ==
    CASE outcome.type = "GainCredits" -> add_credits(gs, outcome.n)
      [] outcome.type = "GainReputation" -> add_reputation(gs, outcome.n)
      [] outcome.type = "ReduceHeat" -> decrease_heat(gs, outcome.n)
      [] outcome.type = "IncreaseHeat" -> increase_heat(gs, outcome.n)
      [] outcome.type = "UnlockContent" -> unlock_tool(gs, outcome.s)
      [] outcome.type = "MaintainAccess" -> {Done(gs, None)}
      [] outcome.type = "SafeExit" -> {Done(gs, None)}
      [] outcome.type = "Special" -> handle_special_outcome(gs, outcome.s)

EventPosition(events, event_id) ==
    IF \E i \in 1..Len(events) : events[i].id = event_id
    THEN CHOOSE i \in 1..Len(events) :
            events[i].id = event_id /\ \A j \in 1..(i - 1) : events[j].id # event_id
    ELSE 0

\* handle_choice that looks at choice_index before it removes the event
handle_choice_keeps_unanswered(em, gs, event_id, choice_index) ==
    LET event_idx == EventPosition(em.active_events, event_id) IN
    IF event_idx = 0
    THEN {[panicked |-> FALSE, em |-> em, gs |-> gs, ret |-> Some("Ok")]}
    ELSE
      LET event == em.active_events[event_idx]
          em2 == [em EXCEPT !.active_events = Remove(em.active_events, event_idx)]
      IN  IF choice_index < Len(event.choices)
          THEN LET choice == event.choices[choice_index + 1]
                   resolved ==
                     UNION { IF o.panicked THEN {o}
                             ELSE IF o.ret = Some(FALSE) THEN {Done(o.gs, None)}
                             ELSE apply_outcome(o.gs, choice.outcome)
                               : o \in apply_cost(gs, choice.cost) }
               IN  { [panicked |-> o.panicked, em |-> em2, gs |-> o.gs,
                      ret |-> IF o.panicked THEN None ELSE Some("Ok")] : o \in resolved }
          ELSE {[panicked |-> FALSE, em |-> em, gs |-> gs, ret |-> Some("Ok")]}

\* The outcomes [panicked, em, gs, ret] of handle_choice; choice_index counts
\* from 0.  Every path that returns, returns Ok(()): the terminal writes of
\* color_scheme are taken to succeed, and the sleeps change no state.
handle_choice(em, gs, event_id, choice_index) ==
    LET event_idx == EventPosition(em.active_events, event_id) IN
    IF event_idx = 0
    THEN {[panicked |-> FALSE, em |-> em, gs |-> gs, ret |-> Some("Ok")]}
    ELSE
      LET event == em.active_events[event_idx]
          em2 == [em EXCEPT !.active_events = Remove(em.active_events, event_idx)]
          resolved ==
            IF choice_index < Len(event.choices)
            THEN LET choice == event.choices[choice_index + 1] IN
                 UNION { IF o.panicked THEN {o}
                         ELSE IF o.ret = Some(FALSE) THEN {Done(o.gs, None)}
                         ELSE apply_outcome(o.gs, choice.outcome)
                           : o \in apply_cost(gs, choice.cost) }
            ELSE {Done(gs, None)}
      IN  { [panicked |-> o.panicked, em |-> em2, gs |-> o.gs,
             ret |-> IF o.panicked THEN None ELSE Some("Ok")] : o \in resolved }

-----------------------------------------------------------------------------
(* ReputationLevel (game/reputation.rs) *)

\* the enum, in declaration order
ReputationLevel ==
    << "Nobody", "Wannabe", "ScriptKiddie", "Amateur", "Competent", "Skilled",
       "Expert", "Master", "Elite", "Legendary", "Mythical" >>

\* from_reputation with every boundary value left in the lower tier
from_reputation_exclusive_bounds(reputation) ==
    IF reputation \in 0..50 THEN "Nobody"
    ELSE IF reputation \in 51..150 THEN "Wannabe"
    ELSE IF reputation \in 151..300 THEN "ScriptKiddie"
    ELSE IF reputation \in 301..500 THEN "Amateur"
    ELSE IF reputation \in 501..750 THEN "Competent"
    ELSE IF reputation \in 751..1000 THEN "Skilled"
    ELSE IF reputation \in 1001..1500 THEN "Expert"
    ELSE IF reputation \in 1501..2000 THEN "Master"
    ELSE IF reputation \in 2001..3000 THEN "Elite"
    ELSE IF reputation \in 3001..5000 THEN "Legendary"
    ELSE "Mythical"

from_reputation(reputation) ==
    IF reputation \in 0..49 THEN "Nobody"
    ELSE IF reputation \in 50..149 THEN "Wannabe"
    ELSE IF reputation \in 150..299 THEN "ScriptKiddie"
    ELSE IF reputation \in 300..499 THEN "Amateur"
    ELSE IF reputation \in 500..749 THEN "Competent"
    ELSE IF reputation \in 750..999 THEN "Skilled"
    ELSE IF reputation \in 1000..1499 THEN "Expert"
    ELSE IF reputation \in 1500..1999 THEN "Master"
    ELSE IF reputation \in 2000..2999 THEN "Elite"
    ELSE IF reputation \in 3000..4999 THEN "Legendary"
    ELSE "Mythical"

reputation_requirement(level) ==
    CASE level = "Nobody" -> 0
      [] level = "Wannabe" -> 50
      [] level = "ScriptKiddie" -> 150
      [] level = "Amateur" -> 300
      [] level = "Competent" -> 500
      [] level = "Skilled" -> 750
      [] level = "Expert" -> 1000
      [] level = "Master" -> 1500
      [] level = "Elite" -> 2000
      [] level = "Legendary" -> 3000
      [] level = "Mythical" -> 5000

-----------------------------------------------------------------------------
(* Users and the AuthSystem (auth/mod.rs) *)

Usernames == {"agent"}

\* password_hash is modelled by the password it was made from: bcrypt::verify
\* accepts exactly that password
User_new(username, password) ==
    [ username |-> username,
      password_hash |-> password,
      last_login |-> None,
      login_count |-> 0,
      reputation |-> 0,
      is_active |-> TRUE,
      failed_attempts |-> 0 ]

verify_password(user, password) == password = user.password_hash

update_login(user, time) ==
    [user EXCEPT !.last_login = Some(time),
                 !.login_count = user.login_count + 1,
                 !.failed_attempts = 0]

record_failed_attempt(user) ==
    LET failed_attempts == user.failed_attempts + 1 IN
    [user EXCEPT !.failed_attempts = failed_attempts,
                 !.is_active = IF failed_attempts >= 5 THEN FALSE ELSE user.is_active]

is_locked(user) == ~user.is_active \/ user.failed_attempts >= 5

unlock(user) == [user EXCEPT !.is_active = TRUE, !.failed_attempts = 0]

\* storage maps a username to None or Some(user)
AuthSystem_new == [ storage |-> [username \in Usernames |-> None], current_user |-> None ]

save_user(as, user) == [as EXCEPT !.storage[user.username] = Some(user)]

\* logout that leaves the current user in place
logout_keeps_user(as) == as

logout(as) == [as EXCEPT !.current_user = None]

LoginOk(user) == [ok |-> TRUE, user |-> user]
LoginErr(message) == [ok |-> FALSE, message |-> message]

\* login that verifies the password before it looks at the lock
login_verifies_first(as, username, password, time) ==
    IF Len(as.storage[username]) = 0
    THEN [as |-> as, ret |-> LoginErr("Invalid username or password")]
    ELSE LET user == as.storage[username][1] IN
         IF ~verify_password(user, password)
         THEN [as |-> save_user(as, record_failed_attempt(user)),
               ret |-> LoginErr("Invalid username or password")]
         ELSE IF is_locked(user)
         THEN [as |-> as, ret |-> LoginErr("Account is locked")]
         ELSE LET logged == update_login(user, time) IN
              [as |-> [save_user(as, logged) EXCEPT !.current_user = Some(logged)],
               ret |-> LoginOk(logged)]

\* AuthSystem::login: the AuthSystem after the call and the Result returned;
\* the write to the user database is taken to succeed.
login(as, username, password, time) ==
    IF Len(as.storage[username]) = 0
    THEN [as |-> as, ret |-> LoginErr("Invalid username or password")]
    ELSE LET user == as.storage[username][1] IN
         IF is_locked(user)
         THEN [as |-> as, ret |-> LoginErr("Account is locked")]
         ELSE IF ~verify_password(user, password)
         THEN [as |-> save_user(as, record_failed_attempt(user)),
               ret |-> LoginErr("Invalid username or password")]
         ELSE LET logged == update_login(user, time) IN
              [as |-> [save_user(as, logged) EXCEPT !.current_user = Some(logged)],
               ret |-> LoginOk(logged)]

\* The outcomes [panicked, as] of AuthSystem::update_reputation; the write to
\* the user database is taken to succeed.
update_reputation(as, change) ==
    IF Len(as.current_user) = 0 THEN {[panicked |-> FALSE, as |-> as]}
    ELSE { IF ~r.ok THEN [panicked |-> TRUE, as |-> as]
           ELSE LET user == [as.current_user[1] EXCEPT !.reputation = r.v] IN
                [panicked |-> FALSE,
                 as |-> save_user([as EXCEPT !.current_user = Some(user)], user)]
             : r \in I32Add(as.current_user[1].reputation, change) }

AuthSystem_idle == AuthSystem_new

Session_idle == [user |-> None, running |-> FALSE]

-----------------------------------------------------------------------------
(* NetworkMap (game/state.rs): a node is the record [ip, hostname], a     *)
(* Connection the record [from, to]                                        *)

NetworkMap_new == [discovered_nodes |-> <<>>, connections |-> <<>>]

add_node(map, node) ==
    IF ~\E i \in DOMAIN map.discovered_nodes : map.discovered_nodes[i].ip = node.ip
    THEN [map EXCEPT !.discovered_nodes = Append(@, node)]
    ELSE map

\* the derived PartialEq of Connection compares from with from and to with to
add_connection(map, from, to) ==
    LET conn == [from |-> from, to |-> to] IN
    IF ~Contains(map.connections, conn)
    THEN [map EXCEPT !.connections = Append(@, conn)]
    ELSE map

\* the first node with this ip, as an Option
get_node(map, ip) ==
    LET found == {i \in DOMAIN map.discovered_nodes : map.discovered_nodes[i].ip = ip}
    IN  IF found = {} THEN None
        ELSE Some(map.discovered_nodes[CHOOSE i \in found : \A j \in found : i <= j])

\* the nodes pushed while the loop goes over the first n connections
RECURSIVE connected_nodes(_, _, _)
connected_nodes(map, ip, n) ==
    IF n = 0 THEN <<>>
    ELSE LET conn == map.connections[n]
             connected == connected_nodes(map, ip, n - 1)
         IN  IF conn.from = ip THEN connected \o get_node(map, conn.to)
             ELSE IF conn.to = ip THEN connected \o get_node(map, conn.from)
             ELSE connected

get_connected_nodes(map, ip) == connected_nodes(map, ip, Len(map.connections))

-----------------------------------------------------------------------------
(* u32 values (Objective.progress and Objective.required, game/mod.rs):   *)
(* a u32 is the record [hi, lo] of its two 16-bit halves, hi * 2^16 + lo,  *)
(* so that values up to u32::MAX are kept with their full width.           *)

Limb == 65536

\* the u32 of a number in 0..MaxI32
U32(n) == [hi |-> n \div Limb, lo |-> n % Limb]

U32Max == [hi |-> Limb - 1, lo |-> Limb - 1]

U32Less(a, b) == a.hi < b.hi \/ (a.hi = b.hi /\ a.lo < b.lo)

U32Leq(a, b) == a = b \/ U32Less(a, b)

\* Ord::min
U32Min(a, b) == IF U32Less(b, a) THEN b ELSE a

\* a + b as the 33-bit result: the carry out of bit 31 and the low 32 bits
U32Carry(a, b) ==
    LET lo == a.lo + b.lo
        hi == a.hi + b.hi + (lo \div Limb)
    IN [carry |-> hi \div Limb, v |-> [hi |-> hi % Limb, lo |-> lo % Limb]]

\* u32::saturating_add
saturating_add(a, b) ==
    IF U32Carry(a, b).carry = 1 THEN U32Max ELSE U32Carry(a, b).v

\* The outcome of the u32 expression a + b: a panic when the build checks
\* overflow, the wrapped sum otherwise.
U32Add(a, b) ==
    IF U32Carry(a, b).carry = 1
    THEN IF overflow_checks THEN {[ok |-> FALSE, v |-> U32(0)]}
         ELSE {[ok |-> TRUE, v |-> U32Carry(a, b).v]}
    ELSE {[ok |-> TRUE, v |-> U32Carry(a, b).v]}

-----------------------------------------------------------------------------
(* f32 values (the result of get_completion_percentage): a positive f32  *)
(* is the record [m, e] of its 24-bit significand and its exponent, with   *)
(* value m * 2^e and 2^23 <= m < 2^24; zero is [m |-> 0, e |-> 0].  Every  *)
(* operation rounds its exact result to the nearest f32, ties to the even  *)
(* significand, as IEEE 754 arithmetic does.  The values met here are far  *)
(* from the subnormal and the infinite range.                              *)

RECURSIVE Pow2(_)
Pow2(n) == IF n = 0 THEN 1 ELSE 2 * Pow2(n - 1)

\* number of binary digits of n
RECURSIVE BitLen(_)
BitLen(n) == IF n = 0 THEN 0 ELSE 1 + BitLen(n \div 2)

F32Zero == [m |-> 0, e |-> 0]

\* The f32 nearest to an exact value v > 0 with n * 2^e <= v < (n + 1) * 2^e,
\* where 0 < n < 2^31 and `sticky` tells whether v is above n * 2^e; n has
\* more than 24 digits whenever sticky holds.
F32Round(n, e, sticky) ==
    LET bits == BitLen(n) IN
    IF bits <= 24
    THEN [m |-> n * Pow2(24 - bits), e |-> e - (24 - bits)]
    ELSE LET s == bits - 24
             q == n \div Pow2(s)
             r == n % Pow2(s)
             half == Pow2(s - 1)
             up == r > half \/ (r = half /\ (sticky \/ q % 2 = 1))
         IN  IF up /\ q + 1 = Pow2(24)
             THEN [m |-> Pow2(23), e |-> e + s + 1]
             ELSE [m |-> IF up THEN q + 1 ELSE q, e |-> e + s]

\* the f32 of a whole number in 0..MaxI32
F32(n) == IF n = 0 THEN F32Zero ELSE F32Round(n, 0, FALSE)

\* `a as f32` for a u32
U32AsF32(a) ==
    IF a = U32(0) THEN F32Zero
    ELSE IF a.hi < Limb \div 2 THEN F32Round(a.hi * Limb + a.lo, 0, FALSE)
    ELSE F32Round(a.hi * (Limb \div 2) + (a.lo \div 2), 1, a.lo % 2 = 1)

\* k more binary digits of the quotient, by long division: q and r are the
\* quotient and remainder so far of a division by d
RECURSIVE LongDiv(_, _, _, _)
LongDiv(q, r, d, k) ==
    IF k = 0 THEN [q |-> q, r |-> r]
    ELSE IF 2 * r >= d THEN LongDiv(2 * q + 1, 2 * r - d, d, k - 1)
    ELSE LongDiv(2 * q, 2 * r, d, k - 1)

\* x / y for f32 x >= 0 and y > 0
F32Div(x, y) ==
    IF x.m = 0 THEN F32Zero
    ELSE LET d == LongDiv(x.m \div y.m, x.m % y.m, y.m, 26)
         IN  F32Round(d.q, x.e - y.e - 26, d.r # 0)

\* x * k for an f32 x >= 0 and a whole number k in 1..127 (k as f32 is exact)
F32Times(x, k) ==
    IF x.m = 0 THEN F32Zero ELSE F32Round(x.m * k, x.e, FALSE)

\* x < y for f32 x, y >= 0
F32Less(x, y) ==
    /\ y.m # 0
    /\ \/ x.m = 0
       \/ x.e < y.e
       \/ x.e = y.e /\ x.m < y.m

F32Leq(x, y) == x = y \/ F32Less(x, y)

-----------------------------------------------------------------------------
(* A Mission and its objectives (game/mod.rs) *)

Mission_new(id, reward_reputation) ==
    [ id |-> id,
      objectives |-> <<>>,
      reward_reputation |-> reward_reputation,
      reward_credits |-> reward_reputation * 10,
      is_completed |-> FALSE,
      is_active |-> FALSE ]

\* The objective id "obj_<n>" is the pair <<"obj", n>>.
add_objective(self, required) ==
    [self EXCEPT !.objectives =
        Append(self.objectives,
               [ id |-> <<"obj", Len(self.objectives) + 1>>,
                 progress |-> U32(0),
                 required |-> required,
                 is_completed |-> FALSE ])]

\* Vec::iter_mut().find(): index of the first objective with this id, 0 if none
find_objective(self, objective_id) ==
    LET found == {i \in DOMAIN self.objectives :
                     self.objectives[i].id = objective_id}
    IN IF found = {} THEN 0 ELSE CHOOSE i \in found : \A j \in found : i <= j

update_objective(self, objective_id, progress) ==
    LET i == find_objective(self, objective_id)
        obj == self.objectives[i]
        sum == saturating_add(obj.progress, progress)
        objectives ==
            IF i = 0 THEN self.objectives
            ELSE [self.objectives EXCEPT ![i] =
                    [obj EXCEPT !.progress = sum,
                                !.is_completed =
                                    IF U32Leq(obj.required, sum) THEN TRUE
                                    ELSE obj.is_completed]]
    IN [self EXCEPT
            !.objectives = objectives,
            !.is_completed =
                IF \A k \in DOMAIN objectives : objectives[k].is_completed
                THEN TRUE ELSE self.is_completed]

\* Iterator::sum() of u32 values, added from the first to the last: the set
\* of its outcomes [ok, v]
RECURSIVE U32Sum(_)
U32Sum(seq) ==
    IF seq = <<>> THEN {[ok |-> TRUE, v |-> U32(0)]}
    ELSE UNION { IF h.ok THEN U32Add(h.v, seq[Len(seq)]) ELSE {h}
                 : h \in U32Sum(SubSeq(seq, 1, Len(seq) - 1)) }

\* The outcomes [panicked, ret] of get_completion_percentage
get_completion_percentage(self) ==
    LET capped == [k \in DOMAIN self.objectives |->
                      U32Min(self.objectives[k].progress, self.objectives[k].required)]
        requireds == [k \in DOMAIN self.objectives |-> self.objectives[k].required]
    IN  IF self.objectives = <<>> THEN {[panicked |-> FALSE, ret |-> Some(F32Zero)]}
        ELSE UNION {
               IF ~total_progress.ok THEN {[panicked |-> TRUE, ret |-> None]}
               ELSE { IF ~total_required.ok THEN [panicked |-> TRUE, ret |-> None]
                      ELSE IF total_required.v = U32(0)
                      THEN [panicked |-> FALSE, ret |-> Some(F32Zero)]
                      ELSE [panicked |-> FALSE,
                            ret |-> Some(F32Times(F32Div(U32AsF32(total_progress.v),
                                                         U32AsF32(total_required.v)),
                                                  100))]
                      : total_required \in U32Sum(requireds) }
               : total_progress \in U32Sum(capped) }

\* the mission of test_mission_creation before its first add_objective
Mission_idle == Mission_new("TEST-001", 50)

-----------------------------------------------------------------------------
(* bincode::serialize and bincode::deserialize (game/mod.rs:36, 50).  A   *)
(* file is a sequence of bytes.  A fixed-width integer is written          *)
(* little-endian, a String or a Vec as its u64 length followed by its      *)
(* bytes or elements, a struct as its fields in declaration order, an enum *)
(* as the u32 index of its variant, a bool as one byte, a Duration as its  *)
(* u64 seconds and u32 nanoseconds, a DateTime as a String of its text.    *)
(* The values written are held as Rust holds them: a String is the         *)
(* sequence of its UTF-8 bytes, a u32 the record of its two 16-bit halves, *)
(* a u64 the sequence of its four (lowest first).  The f32 heat is its     *)
(* count of hundredths, written as 4 bytes of which every pattern is a     *)
(* value; a DateTime is its count of seconds, and its text is modelled by  *)
(* the decimal digits of that count followed by "Z".                       *)

Le16(n) == <<n % 256, n \div 256>>

Limb16(bytes, p) == bytes[p] + 256 * bytes[p + 1]

\* the u64 of a number in 0..MaxI32
U64(n) == <<n % Limb, n \div Limb, 0, 0>>

\* a u64 that is a usable length: below 2^31
IsLength(q) == q[3] = 0 /\ q[4] = 0 /\ q[2] < Limb \div 2

LengthOf(q) == q[1] + Limb * q[2]

RECURSIVE Digits(_)
Digits(n) == IF n < 10 THEN <<48 + n>> ELSE Digits(n \div 10) \o <<48 + (n % 10)>>

RECURSIVE NumberOf(_)
NumberOf(digits) ==
    IF digits = <<>> THEN 0
    ELSE 10 * NumberOf(SubSeq(digits, 1, Len(digits) - 1)) + (digits[Len(digits)] - 48)

DateTimeText(t) == Digits(t) \o <<90>>

\* the text is that of a DateTime: up to nine digits, as Digits writes them,
\* and the "Z"
IsDateTimeText(s) ==
    /\ Len(s) >= 2 /\ Len(s) <= 10
    /\ s[Len(s)] = 90
    /\ \A i \in 1..(Len(s) - 1) : s[i] \in 48..57
    /\ Digits(NumberOf(SubSeq(s, 1, Len(s) - 1))) = SubSeq(s, 1, Len(s) - 1)

\* std::str::from_utf8 accepts the bytes from index i on
RECURSIVE ValidUtf8(_, _)
ValidUtf8(s, i) ==
    LET cont(j) == j <= Len(s) /\ s[j] \in 128..191
        second(lo, hi) == i + 1 <= Len(s) /\ s[i + 1] \in lo..hi
    IN  IF i > Len(s) THEN TRUE
        ELSE IF s[i] < 128 THEN ValidUtf8(s, i + 1)
        ELSE IF s[i] \in 194..223 THEN cont(i + 1) /\ ValidUtf8(s, i + 2)
        ELSE IF s[i] = 224 THEN second(160, 191) /\ cont(i + 2) /\ ValidUtf8(s, i + 3)
        ELSE IF s[i] = 237 THEN second(128, 159) /\ cont(i + 2) /\ ValidUtf8(s, i + 3)
        ELSE IF s[i] \in 225..239 THEN cont(i + 1) /\ cont(i + 2) /\ ValidUtf8(s, i + 3)
        ELSE IF s[i] = 240
             THEN second(144, 191) /\ cont(i + 2) /\ cont(i + 3) /\ ValidUtf8(s, i + 4)
        ELSE IF s[i] \in 241..243
             THEN cont(i + 1) /\ cont(i + 2) /\ cont(i + 3) /\ ValidUtf8(s, i + 4)
        ELSE IF s[i] = 244
             THEN second(128, 143) /\ cont(i + 2) /\ cont(i + 3) /\ ValidUtf8(s, i + 4)
        ELSE FALSE

\* a - b for u32 a >= b
U32Sub(a, b) ==
    IF a.lo >= b.lo THEN [hi |-> a.hi - b.hi, lo |-> a.lo - b.lo]
    ELSE [hi |-> a.hi - b.hi - 1, lo |-> a.lo + Limb - b.lo]

\* 1_000_000_000 nanoseconds
Billion == [hi |-> 15258, lo |-> 51712]

\* Duration::new(secs, nanos): the whole seconds in nanos are carried into
\* secs; the outcome is [ok, v], not ok when the seconds overflow
RECURSIVE Duration_new(_, _)
Duration_new(secs, nanos) ==
    IF U32Less(nanos, Billion) THEN [ok |-> TRUE, v |-> [secs |-> secs, nanos |-> nanos]]
    ELSE LET l1 == secs[1] + 1
             l2 == secs[2] + (l1 \div Limb)
             l3 == secs[3] + (l2 \div Limb)
             l4 == secs[4] + (l3 \div Limb)
         IN  IF l4 >= Limb THEN [ok |-> FALSE, v |-> [secs |-> secs, nanos |-> nanos]]
             ELSE Duration_new(<<l1 % Limb, l2 % Limb, l3 % Limb, l4>>,
                               U32Sub(nanos, Billion))

\* The types serialized
I32T == [kind |-> "i32"]
U32T == [kind |-> "u32"]
U64T == [kind |-> "u64"]
F32T == [kind |-> "f32"]
BoolT == [kind |-> "bool"]
StringT == [kind |-> "string"]
DateTimeT == [kind |-> "datetime"]
DurationT == [kind |-> "duration"]
EnumT(variants) == [kind |-> "enum", variants |-> variants]
VecT(of) == [kind |-> "vec", of |-> of]
StructT(fields) == [kind |-> "struct", fields |-> fields]
Field(name, type) == [name |-> name, type |-> type]

RECURSIVE Concat(_)
Concat(seqs) == IF seqs = <<>> THEN <<>> ELSE Head(seqs) \o Concat(Tail(seqs))

serialize_i32(v) ==
    <<v % 256, (v \div 256) % 256, (v \div 65536) % 256, (v \div 16777216) % 256>>

serialize_u32(a) == Le16(a.lo) \o Le16(a.hi)

serialize_u64(q) == Le16(q[1]) \o Le16(q[2]) \o Le16(q[3]) \o Le16(q[4])

\* bincode::serialize of the value v of type T
RECURSIVE serialize(_, _)
serialize(T, v) ==
    CASE T.kind \in {"i32", "f32", "enum"} -> serialize_i32(v)
      [] T.kind = "u32" -> serialize_u32(v)
      [] T.kind = "u64" -> serialize_u64(v)
      [] T.kind = "bool" -> <<IF v THEN 1 ELSE 0>>
      [] T.kind = "string" -> serialize_u64(U64(Len(v))) \o v
      [] T.kind = "datetime" -> serialize(StringT, DateTimeText(v))
      [] T.kind = "duration" -> serialize_u64(v.secs) \o serialize_u32(v.nanos)
      [] T.kind = "vec" ->
            serialize_u64(U64(Len(v)))
                \o Concat([i \in DOMAIN v |-> serialize(T.of, v[i])])
      [] T.kind = "struct" ->
            Concat([i \in DOMAIN T.fields |->
                       serialize(T.fields[i].type, v[T.fields[i].name])])

\* The outcome of reading a value at position p: the failure, or the value
\* and the position after it
Failed == [ok |-> FALSE, v |-> <<>>, p |-> 0]
Read(v, p) == [ok |-> TRUE, v |-> v, p |-> p]

\* n more bytes are there from position p on
Has(bytes, p, n) == p + n - 1 <= Len(bytes)

deserialize_i32(bytes, p) ==
    IF ~Has(bytes, p, 4) THEN Failed
    ELSE Read(bytes[p] + 256 * bytes[p + 1] + 65536 * bytes[p + 2]
                + 16777216 * (IF bytes[p + 3] >= 128 THEN bytes[p + 3] - 256
                              ELSE bytes[p + 3]),
              p + 4)

deserialize_u32(bytes, p) ==
    IF ~Has(bytes, p, 4) THEN Failed
    ELSE Read([hi |-> Limb16(bytes, p + 2), lo |-> Limb16(bytes, p)], p + 4)

deserialize_u64(bytes, p) ==
    IF ~Has(bytes, p, 8) THEN Failed
    ELSE Read(<<Limb16(bytes, p), Limb16(bytes, p + 2),
                Limb16(bytes, p + 4), Limb16(bytes, p + 6)>>, p + 8)

\* a String: its length, that many bytes, and they are UTF-8
deserialize_string(bytes, p) ==
    LET len == deserialize_u64(bytes, p) IN
    IF ~len.ok \/ ~IsLength(len.v) THEN Failed
    ELSE IF ~Has(bytes, len.p, LengthOf(len.v)) THEN Failed
    ELSE LET s == SubSeq(bytes, len.p, len.p + LengthOf(len.v) - 1) IN
         IF ValidUtf8(s, 1) THEN Read(s, len.p + LengthOf(len.v)) ELSE Failed

\* bincode::deserialize of a value of type T at position p
RECURSIVE deserialize(_, _, _)
RECURSIVE deserialize_seq(_, _, _, _)

\* the values of the given types one after the other, from position p on,
\* added to those already read
deserialize_seq(types, bytes, p, values) ==
    IF Len(values) = Len(types) THEN Read(values, p)
    ELSE LET next == deserialize(types[Len(values) + 1], bytes, p) IN
         IF ~next.ok THEN Failed
         ELSE deserialize_seq(types, bytes, next.p, Append(values, next.v))

deserialize(T, bytes, p) ==
    CASE T.kind \in {"i32", "f32"} -> deserialize_i32(bytes, p)
      [] T.kind = "u32" -> deserialize_u32(bytes, p)
      [] T.kind = "u64" -> deserialize_u64(bytes, p)
      [] T.kind = "bool" ->
            IF ~Has(bytes, p, 1) \/ bytes[p] > 1 THEN Failed
            ELSE Read(bytes[p] = 1, p + 1)
      [] T.kind = "enum" ->
            LET index == deserialize_u32(bytes, p) IN
            IF ~index.ok THEN Failed
            ELSE IF index.v.hi # 0 \/ index.v.lo >= T.variants THEN Failed
            ELSE Read(index.v.lo, index.p)
      [] T.kind = "string" -> deserialize_string(bytes, p)
      [] T.kind = "datetime" ->
            LET text == deserialize_string(bytes, p) IN
            IF ~text.ok THEN Failed
            ELSE IF ~IsDateTimeText(text.v) THEN Failed
            ELSE Read(NumberOf(SubSeq(text.v, 1, Len(text.v) - 1)), text.p)
      [] T.kind = "duration" ->
            LET secs == deserialize_u64(bytes, p) IN
            IF ~secs.ok THEN Failed
            ELSE LET nanos == deserialize_u32(bytes, secs.p) IN
                 IF ~nanos.ok THEN Failed
                 ELSE LET duration == Duration_new(secs.v, nanos.v) IN
                      IF duration.ok THEN Read(duration.v, nanos.p) ELSE Failed
      [] T.kind = "vec" ->
            LET len == deserialize_u64(bytes, p) IN
            IF ~len.ok \/ ~IsLength(len.v) THEN Failed
            ELSE IF LengthOf(len.v) > Len(bytes) THEN Failed  \* more elements than bytes
            ELSE deserialize_seq([i \in 1..LengthOf(len.v) |-> T.of], bytes, len.p, <<>>)
      [] T.kind = "struct" ->
            LET values == deserialize_seq([i \in DOMAIN T.fields |-> T.fields[i].type],
                                          bytes, p, <<>>)
            IN  IF ~values.ok THEN Failed
                ELSE Read([name \in {T.fields[i].name : i \in DOMAIN T.fields} |->
                              values.v[CHOOSE i \in DOMAIN T.fields :
                                          T.fields[i].name = name]],
                          values.p)

-----------------------------------------------------------------------------
(* SaveGame (game/mod.rs:15-62) and the save file *)

\* String::as_bytes of the texts that are saved; APP_VERSION is the package
\* version the build sets, here 0.1.0
Utf8(s) ==
    CASE s = "testuser" -> <<116, 101, 115, 116, 117, 115, 101, 114>>
      [] s = "scan" -> <<115, 99, 97, 110>>
      [] s = "decrypt" -> <<100, 101, 99, 114, 121, 112, 116>>
      [] s = "APP_VERSION" -> <<48, 46, 49, 46, 48>>

ConnectionT == StructT(<<Field("from", StringT), Field("to", StringT)>>)

NetworkNodeT ==
    StructT(<<Field("ip", StringT), Field("hostname", StringT),
              Field("node_type", EnumT(9)), Field("is_compromised", BoolT),
              Field("security_level", EnumT(5)), Field("discovered_at", DateTimeT)>>)

NetworkMapT ==
    StructT(<<Field("discovered_nodes", VecT(NetworkNodeT)),
              Field("connections", VecT(ConnectionT))>>)

GameStateT ==
    StructT(<<Field("username", StringT), Field("reputation", I32T),
              Field("heat_level", F32T), Field("credits", I32T),
              Field("missions_completed", U32T), Field("successful_hacks", U32T),
              Field("failed_hacks", U32T), Field("total_scans", U32T),
              Field("files_decrypted", U32T), Field("systems_compromised", U32T),
              Field("time_played", DurationT), Field("session_start", DateTimeT),
              Field("active_missions", VecT(StringT)),
              Field("completed_missions", VecT(StringT)),
              Field("unlocked_tools", VecT(StringT)),
              Field("discovered_exploits", VecT(StringT)),
              Field("network_map", NetworkMapT)>>)

SaveGameT ==
    StructT(<<Field("game_state", GameStateT), Field("timestamp", DateTimeT),
              Field("version", StringT)>>)

\* The whole GameState of the user "testuser" whose modelled fields are those
\* of gs: the other fields are as GameState::new at time session_start made
\* them
WholeGameState(gs, session_start) ==
    [ username |-> Utf8("testuser"),
      reputation |-> gs.reputation,
      heat_level |-> gs.heat_level,
      credits |-> gs.credits,
      missions_completed |-> U32(gs.missions_completed),
      successful_hacks |-> U32(0),
      failed_hacks |-> U32(0),
      total_scans |-> U32(0),
      files_decrypted |-> U32(0),
      systems_compromised |-> U32(0),
      time_played |-> [secs |-> U64(0), nanos |-> U32(0)],
      session_start |-> session_start,
      active_missions |-> [i \in DOMAIN gs.active_missions |-> Utf8(gs.active_missions[i])],
      completed_missions |->
          [i \in DOMAIN gs.completed_missions |-> Utf8(gs.completed_missions[i])],
      unlocked_tools |-> [i \in DOMAIN gs.unlocked_tools |-> Utf8(gs.unlocked_tools[i])],
      discovered_exploits |->
          [i \in DOMAIN gs.discovered_exploits |-> Utf8(gs.discovered_exploits[i])],
      network_map |-> NetworkMap_new ]

SaveGame_new(game_state_saved, time) ==
    [ game_state |-> game_state_saved,
      timestamp |-> time,
      version |-> Utf8("APP_VERSION") ]

\* The save file: None when there is none, or Some of its bytes and whether
\* they can be read
SaveFile(data) == Some([data |-> data, readable |-> TRUE])

SaveFile_absent == None

\* SaveGame::save: the file afterwards; the write is taken to succeed
save(save_game) == SaveFile(serialize(SaveGameT, save_game))

LoadOk(value) == [ok |-> TRUE, value |-> value]
LoadErr == [ok |-> FALSE, value |-> None]

\* bincode::deserialize::<SaveGame>(&data): bytes after the value are ignored
deserialize_save_game(data) ==
    LET read == deserialize(SaveGameT, data, 1) IN
    IF read.ok THEN LoadOk(Some(read.v)) ELSE LoadErr

\* SaveGame::load
load(file) ==
    IF file = None THEN LoadOk(None)
    ELSE IF ~file[1].readable THEN LoadErr
    ELSE deserialize_save_game(file[1].data)

-----------------------------------------------------------------------------
(* The session state and the calls made on it *)

\* Inputs of the calls
StartingReputations == {0, 100}
ReputationDeltas == {-200, 50, 1000, MaxI32}
HeatAmounts == {-30, 0, 30, 60}
CreditAmounts == {MinI32, -500, 960, 2000, MaxI32}
ChoiceIndexes == 0..3

Call(op, arg, ret) == [op |-> op, arg |-> arg, ret |-> ret]

ReputationManager_idle ==
    [ current_reputation |-> 0, lifetime_reputation |-> 0, level |-> "Nobody",
      multiplier |-> 100, streak |-> 0, last_action |-> None ]

Probe_idle ==
    [r |-> 0, level |-> None, requirement |-> None, get_level |-> None,
     get_level_title |-> None]

Init ==
    /\ \E r \in StartingReputations : game_state = GameState_new(r)
    /\ event_manager = EventManager_new
    /\ rep_manager = ReputationManager_idle
    /\ now = 0
    /\ probe = Probe_idle
    /\ call = Call("new", None, None)
    /\ overflow_checks \in BOOLEAN
    /\ panicked = FALSE
    /\ auth_system = AuthSystem_idle
    /\ session = Session_idle
    /\ mission = Mission_idle
    /\ network_map = NetworkMap_new
    /\ save_file = SaveFile_absent
    /\ steps = 0

\* One call of a GameState mutator: any of its outcomes
GameStateCall(op, arg, outcomes) ==
    /\ ~panicked
    /\ steps < MaxSteps
    /\ \E o \in outcomes :
         /\ game_state' = o.gs
         /\ panicked' = o.panicked
         /\ call' = Call(op, arg, o.ret)
    /\ steps' = steps + 1
    /\ UNCHANGED <<save_file, network_map, mission, session, auth_system, event_manager, rep_manager, now, probe, overflow_checks>>

CallAddReputation(amount) ==
    GameStateCall("add_reputation", Some(amount), add_reputation(game_state, amount))

CallIncreaseHeat(amount) ==
    GameStateCall("increase_heat", Some(amount), increase_heat(game_state, amount))

CallDecreaseHeat(amount) ==
    GameStateCall("decrease_heat", Some(amount), decrease_heat(game_state, amount))

CallAddCredits(amount) ==
    GameStateCall("add_credits", Some(amount), add_credits(game_state, amount))

CallSpendCredits(amount) ==
    GameStateCall("spend_credits", Some(amount), spend_credits(game_state, amount))

\* seconds the clock has advanced since the last generate_event call
EventElapsedSeconds == {1}

\* generate_event called when the clock has advanced by elapsed seconds
CallGenerateEvent(elapsed) ==
    /\ ~panicked
    /\ steps < MaxSteps
    /\ now' = now + elapsed
    /\ \E o \in generate_event(event_manager, game_state.heat_level,
                               game_state.reputation, now') :
         /\ Len(o.ret) = 0 \/ Len(event_manager.event_history) < MaxEvents
         /\ event_manager' = o.em
         /\ call' = Call("generate_event", None, o.ret)
    /\ steps' = steps + 1
    /\ UNCHANGED <<save_file, network_map, mission, session, auth_system, game_state, rep_manager, probe, overflow_checks, panicked>>

\* The ids handle_choice is called with: every id generated so far and one
\* that no event has
HandleChoiceIds ==
    { event_manager.event_history[i].id : i \in 1..Len(event_manager.event_history) }
    \cup {"no_such_event"}

CallHandleChoice(event_id, choice_index) ==
    /\ ~panicked
    /\ steps < MaxSteps
    /\ \E o \in handle_choice(event_manager, game_state, event_id, choice_index) :
         /\ event_manager' = o.em
         /\ game_state' = o.gs
         /\ panicked' = o.panicked
         /\ call' = Call("handle_choice", <<event_id, choice_index>>, o.ret)
    /\ steps' = steps + 1
    /\ UNCHANGED <<save_file, network_map, mission, session, auth_system, rep_manager, now, probe, overflow_checks>>

Next ==
    \/ \E amount \in ReputationDeltas : CallAddReputation(amount)
    \/ \E amount \in HeatAmounts : CallIncreaseHeat(amount)
    \/ \E amount \in HeatAmounts : CallDecreaseHeat(amount)
    \/ \E amount \in CreditAmounts : CallAddCredits(amount)
    \/ \E amount \in CreditAmounts : CallSpendCredits(amount)
    \/ \E elapsed \in EventElapsedSeconds : CallGenerateEvent(elapsed)
    \/ \E event_id \in HandleChoiceIds, choice_index \in ChoiceIndexes :
         CallHandleChoice(event_id, choice_index)

Spec == Init /\ [][Next]_vars

-----------------------------------------------------------------------------
(* Event generation and resolution, from the states the pool selection and
   the credit check distinguish *)

\* event_chance as EventManager::new sets it and as test_event_generation does
EventChances == {10, 100}

\* arguments that take the session to reputation 1000 and 1100, heat 60, 90
\* and (with the Heat(15) cost of vulnerable_system) 75, and credits 40
EventReputationDeltas == {1000}
EventHeatAmounts == {60, 90}
EventCreditAmounts == {960}

InitEvents ==
    /\ \E r \in StartingReputations : game_state = GameState_new(r)
    /\ \E event_chance \in EventChances :
         event_manager = [EventManager_new EXCEPT !.event_chance = event_chance]
    /\ rep_manager = ReputationManager_idle
    /\ now = 0
    /\ probe = Probe_idle
    /\ call = Call("new", None, None)
    /\ overflow_checks \in BOOLEAN
    /\ panicked = FALSE
    /\ auth_system = AuthSystem_idle
    /\ session = Session_idle
    /\ mission = Mission_idle
    /\ network_map = NetworkMap_new
    /\ save_file = SaveFile_absent
    /\ steps = 0

NextEvents ==
    \/ \E amount \in EventReputationDeltas : CallAddReputation(amount)
    \/ \E amount \in EventHeatAmounts : CallIncreaseHeat(amount)
    \/ \E amount \in EventCreditAmounts : CallSpendCredits(amount)
    \/ \E elapsed \in EventElapsedSeconds : CallGenerateEvent(elapsed)
    \/ \E event_id \in HandleChoiceIds, choice_index \in ChoiceIndexes :
         CallHandleChoice(event_id, choice_index)

SpecEvents == InitEvents /\ [][NextEvents]_vars

-----------------------------------------------------------------------------
(* The event log: events are generated seconds or a minute apart, so that
   time limits of 15 to 60 seconds run out while their events are active *)

EventLogElapsedSeconds == {1, 61}

InitEventLog ==
    /\ game_state = GameState_new(0)
    /\ \E event_chance \in EventChances :
         event_manager = [EventManager_new EXCEPT !.event_chance = event_chance]
    /\ rep_manager = ReputationManager_idle
    /\ now = 0
    /\ probe = Probe_idle
    /\ call = Call("new", None, None)
    /\ overflow_checks \in BOOLEAN
    /\ panicked = FALSE
    /\ auth_system = AuthSystem_idle
    /\ session = Session_idle
    /\ mission = Mission_idle
    /\ network_map = NetworkMap_new
    /\ save_file = SaveFile_absent
    /\ steps = 0

NextEventLog ==
    \/ \E elapsed \in EventLogElapsedSeconds : CallGenerateEvent(elapsed)
    \/ \E event_id \in HandleChoiceIds, choice_index \in ChoiceIndexes :
         CallHandleChoice(event_id, choice_index)

SpecEventLog == InitEventLog /\ [][NextEventLog]_vars

-----------------------------------------------------------------------------
(* The terminal session (main.rs, run_terminal_session): one action is one
   turn of its loop.  Terminal input and output are taken to succeed. *)

\* the command lines typed, one per kind of effect
SessionInputs == {"status", "scan", "firewall target disable", "logout", "exit"}

SessionElapsedSeconds == {1}

\* str::split_whitespace on the command lines typed here; a line without
\* white space is one word
split_whitespace(input) ==
    CASE input = "" -> <<>>
      [] input = "   " -> <<>>
      [] input = "help scan" -> <<"help", "scan">>
      [] input = "nmap 10.0.0.1" -> <<"nmap", "10.0.0.1">>
      [] input = "exploit 10.0.0.1" -> <<"exploit", "10.0.0.1">>
      [] input = "inject 10.0.0.1 worm" -> <<"inject", "10.0.0.1", "worm">>
      [] input = "firewall target" -> <<"firewall", "target">>
      [] input = "firewall target bypass" -> <<"firewall", "target", "bypass">>
      [] input = "firewall target disable" -> <<"firewall", "target", "disable">>
      [] OTHER -> <<input>>

\* commands::parse_args: the command and its arguments
parse_args(input) ==
    LET parts == split_whitespace(input) IN
    IF parts = <<>> THEN [command |-> "", args |-> <<>>]
    ELSE [command |-> Head(parts), args |-> Tail(parts)]

\* the outcomes of a handler that returns Continue after the calls made
Continue(outcomes) == { [o EXCEPT !.ret = Some("Continue")] : o \in outcomes }

handle_scan(gs, args) ==
    Continue(AndThen(add_reputation(gs, 5), LAMBDA g : increase_heat(g, 10)))

\* exploit::execute_exploit reports a success or a failure
handle_exploit(gs, args) ==
    IF Len(args) < 1 THEN Continue({Done(gs, None)})
    ELSE Continue(AndThen(add_reputation(gs, 20), LAMBDA g : increase_heat(g, 25))
                  \cup increase_heat(gs, 15))

handle_decrypt(gs, args) ==
    Continue(AndThen(add_reputation(gs, 10), LAMBDA g : increase_heat(g, 5)))

\* rand::random::<bool>() decides between the two branches
handle_inject(gs, args) ==
    IF Len(args) = 0 THEN Continue({Done(gs, None)})
    ELSE Continue(AndThen(add_reputation(gs, 15), LAMBDA g : increase_heat(g, 20))
                  \cup increase_heat(gs, 10))

handle_trace(gs, args) == Continue(increase_heat(gs, 3))

handle_darkweb(gs, args) == Continue(increase_heat(gs, 5))

handle_firewall(gs, args) ==
    IF Len(args) = 0 THEN Continue({Done(gs, None)})
    ELSE LET action == IF Len(args) >= 2 THEN args[2] ELSE "analyze" IN
         CASE action = "bypass" ->
                 Continue(AndThen(add_reputation(gs, 25), LAMBDA g : increase_heat(g, 30)))
           [] action = "disable" ->
                 Continue(AndThen(add_reputation(gs, 30), LAMBDA g : increase_heat(g, 40)))
           [] OTHER -> Continue(increase_heat(gs, 5))

\* The outcomes [panicked, gs, ret] of CommandHandler::execute; ret is the
\* CommandResult.  help, status, mission and clear only write to the terminal.
execute(gs, input) ==
    IF split_whitespace(input) = <<>> THEN {Done(gs, Some("Continue"))}
    ELSE
      LET command == parse_args(input).command
          args == parse_args(input).args
      IN  CASE command \in {"help", "?", "h"} -> {Done(gs, Some("Continue"))}
            [] command \in {"scan", "nmap", "recon"} -> handle_scan(gs, args)
            [] command \in {"exploit", "pwn", "attack"} -> handle_exploit(gs, args)
            [] command \in {"decrypt", "decode", "decipher"} -> handle_decrypt(gs, args)
            [] command \in {"inject", "payload", "implant"} -> handle_inject(gs, args)
            [] command \in {"trace", "traceroute", "track"} -> handle_trace(gs, args)
            [] command \in {"status", "stats", "info"} -> {Done(gs, Some("Continue"))}
            [] command \in {"mission", "objective", "task"} -> {Done(gs, Some("Continue"))}
            [] command \in {"darkweb", "market", "underground"} -> handle_darkweb(gs, args)
            [] command \in {"firewall", "fw", "barrier"} -> handle_firewall(gs, args)
            [] command \in {"clear", "cls", "cl"} -> {Done(gs, Some("Continue"))}
            [] command \in {"logout", "exit", "quit", "disconnect"} ->
                  {Done(gs, Some("Logout"))}
            [] OTHER -> {Done(gs, Some("Continue"))}

\* the heat check at the end of a turn with > in the place of >=
busted_above(gs) == gs.heat_level > 100 * HeatUnit

\* the heat check at the end of a turn
busted(gs) == gs.heat_level >= 100 * HeatUnit

\* a turn that asks the EventManager for an event twice
check_for_random_events_twice(em, gs, time) ==
    UNION { generate_event(g.em, gs.heat_level, gs.reputation, time)
              : g \in generate_event(em, gs.heat_level, gs.reputation, time) }

\* The check for random events at the top of a turn: one generate_event call,
\* with the heat and the reputation of the session's GameState
check_for_random_events(em, gs, time) ==
    generate_event(em, gs.heat_level, gs.reputation, time)

\* What follows the command in a turn: the outcomes [panicked, as, running]
\* of the match on the result and of the heat check.  user is the copy of the
\* User the session was started with.
after_command(as, user, gs, result) ==
    IF result = "Logout" THEN {[panicked |-> FALSE, as |-> logout(as), running |-> FALSE]}
    ELSE IF result = "Exit" THEN {[panicked |-> FALSE, as |-> as, running |-> FALSE]}
    ELSE UNION {
           IF ~change.ok THEN {[panicked |-> TRUE, as |-> as, running |-> TRUE]}
           ELSE { IF u.panicked THEN [panicked |-> TRUE, as |-> as, running |-> TRUE]
                  ELSE IF busted(gs)
                       THEN [panicked |-> FALSE, as |-> logout(u.as), running |-> FALSE]
                       ELSE [panicked |-> FALSE, as |-> u.as, running |-> TRUE]
                    : u \in update_reputation(as, change.v) }
             : change \in I32Sub(gs.reputation, user.reputation) }

\* a user who has registered and logged in, with the reputation of earlier
\* sessions
InitSession ==
    /\ \E r \in StartingReputations :
         LET user == [update_login(User_new("agent", "Password123!"), 0)
                        EXCEPT !.reputation = r]
         IN  /\ auth_system = [save_user(AuthSystem_new, user) EXCEPT !.current_user = Some(user)]
             /\ session = [user |-> Some(user), running |-> TRUE]
             /\ game_state = GameState_new(r)
    /\ event_manager = EventManager_new
    /\ rep_manager = ReputationManager_idle
    /\ now = 0
    /\ probe = Probe_idle
    /\ call = Call("new", None, None)
    /\ overflow_checks \in BOOLEAN
    /\ panicked = FALSE
    /\ mission = Mission_idle
    /\ network_map = NetworkMap_new
    /\ save_file = SaveFile_absent
    /\ steps = 0

\* One turn of the loop: an event may be generated and is displayed, the heat
\* decays, the command typed is executed, and the result and the heat decide
\* whether the loop goes on.
SessionTurn(input, elapsed) ==
    /\ session.running
    /\ ~panicked
    /\ steps < MaxSteps
    /\ now' = now + elapsed
    /\ \E g \in check_for_random_events(event_manager, game_state, now') :
         /\ Len(g.ret) = 0 \/ Len(event_manager.event_history) < MaxEvents
         /\ event_manager' = g.em
    /\ \E o \in AndThen(apply_heat_decay(game_state, 99), LAMBDA gs : execute(gs, input)) :
         IF o.panicked
         THEN /\ panicked' = TRUE
              /\ call' = Call("execute", Some(input), None)
              /\ UNCHANGED <<save_file, network_map, mission, game_state, auth_system, session>>
         ELSE \E a \in after_command(auth_system, session.user[1], o.gs, o.ret[1]) :
                /\ game_state' = o.gs
                /\ auth_system' = a.as
                /\ session' = [session EXCEPT !.running = a.running]
                /\ panicked' = a.panicked
                /\ call' = Call("execute", Some(input), o.ret)
    /\ steps' = steps + 1
    /\ UNCHANGED <<save_file, network_map, mission, rep_manager, probe, overflow_checks>>

NextSession ==
    \E input \in SessionInputs, elapsed \in SessionElapsedSeconds :
        SessionTurn(input, elapsed)

SpecSession == InitSession /\ [][NextSession]_vars

\* the loop takes its next turn as long as the session runs
SpecSessionLive == SpecSession /\ WF_vars(NextSession)

-----------------------------------------------------------------------------
(* Missions (game/mod.rs) and the mission lists of the GameState *)

generate_missions ==
    << add_objective(add_objective(Mission_new("INIT-001", 10), U32(1)), U32(1)),
       add_objective(add_objective(Mission_new("RECON-001", 25), U32(5)), U32(3)),
       add_objective(add_objective(add_objective(Mission_new("DATA-001", 50), U32(1)), U32(3)), U32(1)),
       add_objective(add_objective(add_objective(Mission_new("CORP-001", 100), U32(2)), U32(3)), U32(1)),
       add_objective(add_objective(add_objective(Mission_new("GHOST-001", 200), U32(5)), U32(1)), U32(1)),
       add_objective(add_objective(add_objective(Mission_new("IMPOSSIBLE-001", 500), U32(1)), U32(1)), U32(1)) >>

\* Ids passed to start_mission and complete_mission: catalog missions and one
\* id the catalog does not have
MissionIds == {"INIT-001", "RECON-001", "CORP-001", "UNLISTED-001"}

MissionCall(op, arg, outcomes) ==
    /\ \E o \in outcomes :
         /\ game_state' = o.gs
         /\ call' = Call(op, arg, o.ret)
    /\ UNCHANGED <<save_file, network_map, mission, session, auth_system, event_manager, rep_manager, now, probe, overflow_checks, panicked, steps>>

CallStartMission(mission_id) ==
    MissionCall("start_mission", Some(mission_id), start_mission(game_state, mission_id))

CallCompleteMission(mission_id) ==
    MissionCall("complete_mission", Some(mission_id), complete_mission(game_state, mission_id))

NextMissions ==
    \/ \E mission_id \in MissionIds : CallStartMission(mission_id)
    \/ \E mission_id \in MissionIds : CallCompleteMission(mission_id)

SpecMissions == Init /\ [][NextMissions]_vars

-----------------------------------------------------------------------------
(* ReputationManager (game/reputation.rs) *)

ReputationManager_new(starting_reputation) ==
    [ current_reputation |-> starting_reputation,
      lifetime_reputation |-> starting_reputation,
      level |-> from_reputation(starting_reputation),
      multiplier |-> 100,
      streak |-> 0,
      last_action |-> None ]

\* reset_streak that leaves the multiplier of the streak that ended
reset_streak_keeps_multiplier(rm) == [rm EXCEPT !.streak = 0]

reset_streak(rm) == [rm EXCEPT !.streak = 0, !.multiplier = 100]

\* update_streak that still counts an action made exactly 300 seconds after
\* the last one
update_streak_inclusive_window(rm, time) ==
    LET counted ==
          IF Len(rm.last_action) = 1
          THEN IF time - rm.last_action[1] <= 300
               THEN LET streak == rm.streak + 1 IN
                    [rm EXCEPT !.streak = streak,
                               !.multiplier =
                                  IF streak \in 0..4 THEN 100
                                  ELSE IF streak \in 5..9 THEN 110
                                  ELSE IF streak \in 10..19 THEN 125
                                  ELSE IF streak \in 20..29 THEN 150
                                  ELSE IF streak \in 30..49 THEN 175
                                  ELSE 200]
               ELSE reset_streak(rm)
          ELSE rm
    IN  [counted EXCEPT !.last_action = Some(time)]

\* time is the value chrono::Utc::now() returns, in seconds
update_streak(rm, time) ==
    LET counted ==
          IF Len(rm.last_action) = 1
          THEN IF time - rm.last_action[1] < 300
               THEN LET streak == rm.streak + 1 IN
                    [rm EXCEPT !.streak = streak,
                               !.multiplier =
                                  IF streak \in 0..4 THEN 100
                                  ELSE IF streak \in 5..9 THEN 110
                                  ELSE IF streak \in 10..19 THEN 125
                                  ELSE IF streak \in 20..29 THEN 150
                                  ELSE IF streak \in 30..49 THEN 175
                                  ELSE 200]
               ELSE reset_streak(rm)
          ELSE rm
    IN  [counted EXCEPT !.last_action = Some(time)]

\* (base_amount as f32 * multiplier) as i32, for the base amounts the model
\* uses: a float-to-int cast truncates toward zero and saturates, and
\* i32::MAX and i32::MIN become +-2^31 as f32, which saturate back.  The
\* small amounts and their products with the multipliers 1.0 .. 2.0 are
\* exact in f32 up to an error far below the distance to the next integer or
\* half integer, so the product in hundredths decides the result.
final_amount(base_amount, multiplier) ==
    IF base_amount = MaxI32 THEN MaxI32
    ELSE IF base_amount = MinI32 THEN MinI32
    ELSE IF base_amount >= 0 THEN (base_amount * multiplier) \div 100
    ELSE -(((-base_amount) * multiplier) \div 100)

\* The outcomes [panicked, rm, ret] of ReputationManager::add_reputation
rm_add_reputation(rm, base_amount, time) ==
    LET final == final_amount(base_amount, rm.multiplier) IN
    UNION {
      IF ~cur.ok THEN {[panicked |-> TRUE, rm |-> rm, ret |-> None]}
      ELSE { IF ~life.ok THEN [panicked |-> TRUE, rm |-> rm, ret |-> None]
             ELSE [ panicked |-> FALSE,
                    rm |-> update_streak(
                             [rm EXCEPT !.current_reputation = cur.v,
                                        !.lifetime_reputation = life.v,
                                        !.level = from_reputation(cur.v)], time),
                    ret |-> Some(final) ]
               : life \in IF final > 0 THEN I32Add(rm.lifetime_reputation, final)
                          ELSE {[ok |-> TRUE, v |-> rm.lifetime_reputation]} }
        : cur \in I32Add(rm.current_reputation, final) }

\* remove_reputation that leaves the cached level as it was
rm_remove_reputation_stale_level(rm, amount) ==
    { IF ~r.ok THEN [panicked |-> TRUE, rm |-> rm, ret |-> None]
      ELSE [ panicked |-> FALSE,
             rm |-> reset_streak([rm EXCEPT !.current_reputation = Max(r.v, 0)]),
             ret |-> None ]
        : r \in I32Sub(rm.current_reputation, amount) }

\* The outcomes [panicked, rm, ret] of ReputationManager::remove_reputation
rm_remove_reputation(rm, amount) ==
    { IF ~r.ok THEN [panicked |-> TRUE, rm |-> rm, ret |-> None]
      ELSE [ panicked |-> FALSE,
             rm |-> reset_streak([rm EXCEPT !.current_reputation = Max(r.v, 0),
                                            !.level = from_reputation(Max(r.v, 0))]),
             ret |-> None ]
        : r \in I32Sub(rm.current_reputation, amount) }

BaseAmounts == {-100, 7, 100, MaxI32}
RemoveAmounts == {-50, 150}
\* seconds between two calls: just inside and just outside the streak window
ElapsedSeconds == {299, 300}

InitRep ==
    /\ \E r \in StartingReputations : rep_manager = ReputationManager_new(r)
    /\ game_state = GameState_new(0)
    /\ event_manager = EventManager_new
    /\ now = 0
    /\ probe = Probe_idle
    /\ call = Call("new", None, None)
    /\ overflow_checks \in BOOLEAN
    /\ panicked = FALSE
    /\ auth_system = AuthSystem_idle
    /\ session = Session_idle
    /\ mission = Mission_idle
    /\ network_map = NetworkMap_new
    /\ save_file = SaveFile_absent
    /\ steps = 0

\* add_reputation called when the clock has advanced by elapsed seconds
CallRmAddReputation(base_amount, elapsed) ==
    /\ ~panicked
    /\ steps < MaxRepSteps
    /\ now' = now + elapsed
    /\ \E o \in rm_add_reputation(rep_manager, base_amount, now') :
         /\ rep_manager' = o.rm
         /\ panicked' = o.panicked
         /\ call' = Call("add_reputation", Some(base_amount), o.ret)
    /\ steps' = steps + 1
    /\ UNCHANGED <<save_file, network_map, mission, session, auth_system, game_state, event_manager, probe, overflow_checks>>

CallRmRemoveReputation(amount) ==
    /\ ~panicked
    /\ steps < MaxRepSteps
    /\ \E o \in rm_remove_reputation(rep_manager, amount) :
         /\ rep_manager' = o.rm
         /\ panicked' = o.panicked
         /\ call' = Call("remove_reputation", Some(amount), o.ret)
    /\ steps' = steps + 1
    /\ UNCHANGED <<save_file, network_map, mission, session, auth_system, game_state, event_manager, now, probe, overflow_checks>>

NextRep ==
    \/ \E base_amount \in BaseAmounts, elapsed \in ElapsedSeconds :
         CallRmAddReputation(base_amount, elapsed)
    \/ \E amount \in RemoveAmounts : CallRmRemoveReputation(amount)

SpecRep == InitRep /\ [][NextRep]_vars

-----------------------------------------------------------------------------
(* The streak of a manager made with ReputationManager::new(0), driven as in
   test_streak_multiplier: update_streak calls, then add_reputation(100) *)

InitStreak ==
    /\ rep_manager = ReputationManager_new(0)
    /\ game_state = GameState_new(0)
    /\ event_manager = EventManager_new
    /\ now = 0
    /\ probe = Probe_idle
    /\ call = Call("new", None, None)
    /\ overflow_checks \in BOOLEAN
    /\ panicked = FALSE
    /\ auth_system = AuthSystem_idle
    /\ session = Session_idle
    /\ mission = Mission_idle
    /\ network_map = NetworkMap_new
    /\ save_file = SaveFile_absent
    /\ steps = 0

\* update_streak called when the clock has advanced by elapsed seconds
CallUpdateStreak(elapsed) ==
    /\ ~panicked
    /\ steps < MaxRepSteps
    /\ now' = now + elapsed
    /\ rep_manager' = update_streak(rep_manager, now')
    /\ call' = Call("update_streak", None, None)
    /\ steps' = steps + 1
    /\ UNCHANGED <<save_file, network_map, mission, session, auth_system, game_state, event_manager, probe, overflow_checks, panicked>>

NextStreak ==
    \/ \E elapsed \in ElapsedSeconds : CallUpdateStreak(elapsed)
    \/ \E elapsed \in ElapsedSeconds : CallRmAddReputation(100, elapsed)

SpecStreak == InitStreak /\ [][NextStreak]_vars

-----------------------------------------------------------------------------
(* Lookups in the ReputationLevel table *)

\* get_level with a level for each of the 11 tiers of ReputationLevel
get_level_eleven_bands(gs) ==
    LET r == gs.reputation IN
    IF r \in 0..49 THEN 1
    ELSE IF r \in 50..149 THEN 2
    ELSE IF r \in 150..299 THEN 3
    ELSE IF r \in 300..499 THEN 4
    ELSE IF r \in 500..749 THEN 5
    ELSE IF r \in 750..999 THEN 6
    ELSE IF r \in 1000..1499 THEN 7
    ELSE IF r \in 1500..1999 THEN 8
    ELSE IF r \in 2000..2999 THEN 9
    ELSE IF r \in 3000..4999 THEN 10
    ELSE 11

\* GameState::get_level (game/state.rs)
get_level(gs) ==
    LET r == gs.reputation IN
    IF r \in 0..49 THEN 1
    ELSE IF r \in 50..149 THEN 2
    ELSE IF r \in 150..299 THEN 3
    ELSE IF r \in 300..499 THEN 4
    ELSE IF r \in 500..749 THEN 5
    ELSE IF r \in 750..999 THEN 6
    ELSE IF r \in 1000..1499 THEN 7
    ELSE IF r \in 1500..1999 THEN 8
    ELSE IF r \in 2000..2999 THEN 9
    ELSE 10

\* GameState::get_level_title
get_level_title(gs) ==
    LET level == get_level(gs) IN
    CASE level = 1 -> "Newbie"
      [] level = 2 -> "Script Kiddie"
      [] level = 3 -> "Amateur Hacker"
      [] level = 4 -> "Competent Hacker"
      [] level = 5 -> "Skilled Hacker"
      [] level = 6 -> "Expert Hacker"
      [] level = 7 -> "Master Hacker"
      [] level = 8 -> "Elite Hacker"
      [] level = 9 -> "Legendary Hacker"
      [] level = 10 -> "Ghost"
      [] OTHER -> "Unknown"

\* the lookups made for a reputation r: from_reputation, the requirement of
\* its result, and get_level and get_level_title of a GameState whose
\* reputation is set to r, as test_level_calculation sets it
Lookup(r) ==
    LET state == [GameState_new(0) EXCEPT !.reputation = r] IN
    [ r |-> r,
      level |-> Some(from_reputation(r)),
      requirement |-> Some(reputation_requirement(from_reputation(r))),
      get_level |-> Some(get_level(state)),
      get_level_title |-> Some(get_level_title(state)) ]

\* how far the next lookup lies above the last one
ProbeStrides == {0, 1, 49, 500, 2500}

InitLevel ==
    /\ \E r \in 0..MaxProbe : probe = [Probe_idle EXCEPT !.r = r]
    /\ game_state = GameState_new(0)
    /\ event_manager = EventManager_new
    /\ rep_manager = ReputationManager_idle
    /\ now = 0
    /\ call = Call("new", None, None)
    /\ overflow_checks \in BOOLEAN
    /\ panicked = FALSE
    /\ auth_system = AuthSystem_idle
    /\ session = Session_idle
    /\ mission = Mission_idle
    /\ network_map = NetworkMap_new
    /\ save_file = SaveFile_absent
    /\ steps = 0

\* from_reputation(r) and reputation_requirement of the result
LookupLevel ==
    /\ Len(probe.level) = 0
    /\ probe' = Lookup(probe.r)
    /\ UNCHANGED <<save_file, network_map, mission, session, auth_system, game_state, event_manager, rep_manager, now, call,
                   overflow_checks, panicked, steps>>

\* the same for a reputation that is stride higher
LookupHigher(stride) ==
    /\ Len(probe.level) = 1
    /\ probe.r + stride <= MaxProbe
    /\ probe' = Lookup(probe.r + stride)
    /\ UNCHANGED <<save_file, network_map, mission, session, auth_system, game_state, event_manager, rep_manager, now, call,
                   overflow_checks, panicked, steps>>

NextLevel ==
    \/ LookupLevel
    \/ \E stride \in ProbeStrides : LookupHigher(stride)

SpecLevel == InitLevel /\ [][NextLevel]_vars

-----------------------------------------------------------------------------
(* A mission built as in test_mission_creation: Mission::new, then
   add_objective and update_objective in any order *)

\* Values of `required`: the 5 of test_mission_creation, 3, 0 and u32::MAX
ObjectiveRequireds == {U32(0), U32(3), U32(5), U32Max}

\* Values of the `progress` argument of update_objective: the 3 and 2 of
\* test_mission_creation, 0 and u32::MAX
ProgressDeltas == {U32(0), U32(2), U32(3), U32Max}

\* "obj_1" .. "obj_<MaxObjectives>" and "obj_0", which no objective has
ObjectiveIds == {<<"obj", n>> : n \in 0..MaxObjectives}

InitObjectives ==
    /\ mission = Mission_new("TEST-001", 50)
    /\ game_state = GameState_new(0)
    /\ event_manager = EventManager_new
    /\ rep_manager = ReputationManager_idle
    /\ now = 0
    /\ probe = Probe_idle
    /\ call = Call("new", None, None)
    /\ overflow_checks \in BOOLEAN
    /\ panicked = FALSE
    /\ auth_system = AuthSystem_idle
    /\ session = Session_idle
    /\ network_map = NetworkMap_new
    /\ save_file = SaveFile_absent
    /\ steps = 0

CallAddObjective(required) ==
    /\ steps < MaxMissionSteps
    /\ ~panicked
    /\ Len(mission.objectives) < MaxObjectives
    /\ mission' = add_objective(mission, required)
    /\ call' = Call("add_objective", required, None)
    /\ steps' = steps + 1
    /\ UNCHANGED <<save_file, network_map, game_state, event_manager, rep_manager, now, probe,
                   auth_system, session, overflow_checks, panicked>>

CallUpdateObjective(objective_id, progress) ==
    /\ steps < MaxMissionSteps
    /\ ~panicked
    /\ mission' = update_objective(mission, objective_id, progress)
    /\ call' = Call("update_objective", <<objective_id, progress>>, None)
    /\ steps' = steps + 1
    /\ UNCHANGED <<save_file, network_map, game_state, event_manager, rep_manager, now, probe,
                   auth_system, session, overflow_checks, panicked>>

CallGetCompletionPercentage ==
    /\ steps < MaxMissionSteps
    /\ ~panicked
    /\ \E o \in get_completion_percentage(mission) :
         /\ panicked' = o.panicked
         /\ call' = Call("get_completion_percentage", None, o.ret)
    /\ steps' = steps + 1
    /\ UNCHANGED <<save_file, network_map, mission, game_state, event_manager, rep_manager, now, probe,
                   auth_system, session, overflow_checks>>

NextObjectives ==
    \/ CallGetCompletionPercentage
    \/ \E required \in ObjectiveRequireds : CallAddObjective(required)
    \/ \E objective_id \in ObjectiveIds, progress \in ProgressDeltas :
         CallUpdateObjective(objective_id, progress)

SpecObjectives == InitObjectives /\ [][NextObjectives]_vars

-----------------------------------------------------------------------------
(* The heat of a GameState under increase_heat, decrease_heat and
   apply_heat_decay, as in test_heat_management *)

\* Heat amounts: 60 and 20 reach 80, 60 twice and a decrease by 30 reach 70;
\* -30 is a negative amount
DecayHeatAmounts == {-30, 20, 30, 60}

\* Decay rates in (0, 1], in hundredths: 0.5, the 0.99 of the session loop, 1.0
DecayRates == {50, 99, 100}

InitHeat ==
    /\ game_state = GameState_new(0)
    /\ event_manager = EventManager_new
    /\ rep_manager = ReputationManager_idle
    /\ now = 0
    /\ probe = Probe_idle
    /\ call = Call("new", None, None)
    /\ overflow_checks \in BOOLEAN
    /\ panicked = FALSE
    /\ auth_system = AuthSystem_idle
    /\ session = Session_idle
    /\ mission = Mission_idle
    /\ network_map = NetworkMap_new
    /\ save_file = SaveFile_absent
    /\ steps = 0

CallApplyHeatDecay(decay_rate) ==
    GameStateCall("apply_heat_decay", Some(decay_rate),
                  apply_heat_decay(game_state, decay_rate))

NextHeat ==
    \/ \E amount \in DecayHeatAmounts : CallIncreaseHeat(amount)
    \/ \E amount \in DecayHeatAmounts : CallDecreaseHeat(amount)
    \/ \E decay_rate \in DecayRates : CallApplyHeatDecay(decay_rate)

SpecHeat == InitHeat /\ [][NextHeat]_vars

-----------------------------------------------------------------------------
(* The network map under add_node, add_connection and get_connected_nodes,
   as in test_network_map *)

\* the two addresses of test_network_map and one that is never added as a node
NodeIps == {"192.168.1.1", "192.168.1.10"}
ConnectionIps == NodeIps \cup {"10.0.0.5"}
Hostnames == {"router", "server"}

InitNetwork ==
    /\ network_map = NetworkMap_new
    /\ game_state = GameState_new(0)
    /\ event_manager = EventManager_new
    /\ rep_manager = ReputationManager_idle
    /\ now = 0
    /\ probe = Probe_idle
    /\ call = Call("new", None, None)
    /\ overflow_checks \in BOOLEAN
    /\ panicked = FALSE
    /\ auth_system = AuthSystem_idle
    /\ session = Session_idle
    /\ mission = Mission_idle
    /\ save_file = SaveFile_absent
    /\ steps = 0

NetworkMapCall(op, arg, map, ret) ==
    /\ steps < MaxSteps
    /\ network_map' = map
    /\ call' = Call(op, arg, ret)
    /\ steps' = steps + 1
    /\ UNCHANGED <<save_file, mission, game_state, event_manager, rep_manager, now, probe,
                   auth_system, session, overflow_checks, panicked>>

CallAddNode(node) ==
    NetworkMapCall("add_node", node, add_node(network_map, node), None)

CallAddConnection(from, to) ==
    NetworkMapCall("add_connection", <<from, to>>,
                   add_connection(network_map, from, to), None)

CallGetConnectedNodes(ip) ==
    NetworkMapCall("get_connected_nodes", ip, network_map,
                   get_connected_nodes(network_map, ip))

NextNetwork ==
    \/ \E ip \in NodeIps, hostname \in Hostnames :
         CallAddNode([ip |-> ip, hostname |-> hostname])
    \/ \E from \in ConnectionIps, to \in ConnectionIps : CallAddConnection(from, to)
    \/ \E ip \in ConnectionIps : CallGetConnectedNodes(ip)

SpecNetwork == InitNetwork /\ [][NextNetwork]_vars

-----------------------------------------------------------------------------
(* Logins to one registered account: AuthSystem::login with the right and
   with a wrong password, and the User methods record_failed_attempt and
   unlock applied to the stored user, as in test_failed_attempts *)

\* the password of test_failed_attempts and a wrong one
Passwords == {"Password123!", "wrongpassword"}

\* the registered user and a name nobody registered
LoginUsernames == Usernames \cup {"nobody"}

InitAuth ==
    /\ auth_system = save_user(AuthSystem_new, User_new("agent", "Password123!"))
    /\ session = Session_idle
    /\ game_state = GameState_new(0)
    /\ event_manager = EventManager_new
    /\ rep_manager = ReputationManager_idle
    /\ now = 0
    /\ probe = Probe_idle
    /\ call = Call("new", None, None)
    /\ overflow_checks \in BOOLEAN
    /\ panicked = FALSE
    /\ mission = Mission_idle
    /\ network_map = NetworkMap_new
    /\ save_file = SaveFile_absent
    /\ steps = 0

AuthCall(op, arg, as, ret) ==
    /\ steps < MaxAuthSteps
    /\ auth_system' = as
    /\ call' = Call(op, arg, ret)
    /\ steps' = steps + 1
    /\ UNCHANGED <<save_file, network_map, mission, game_state, event_manager, rep_manager, now,
                   probe, session, overflow_checks, panicked>>

CallLogin(username, password) ==
    IF username \in Usernames
    THEN LET o == login(auth_system, username, password, now)
         IN  AuthCall("login", <<username, password>>, o.as, o.ret)
    ELSE AuthCall("login", <<username, password>>, auth_system,
                  LoginErr("Invalid username or password"))

CallRecordFailedAttempt(username) ==
    AuthCall("record_failed_attempt", username,
             save_user(auth_system, record_failed_attempt(auth_system.storage[username][1])),
             None)

CallUnlock(username) ==
    AuthCall("unlock", username,
             save_user(auth_system, unlock(auth_system.storage[username][1])), None)

CallLogout ==
    AuthCall("logout", None, logout(auth_system), None)

NextAuth ==
    \/ \E username \in LoginUsernames, password \in Passwords : CallLogin(username, password)
    \/ \E username \in Usernames : CallRecordFailedAttempt(username)
    \/ \E username \in Usernames : CallUnlock(username)
    \/ CallLogout

SpecAuth == InitAuth /\ [][NextAuth]_vars

-----------------------------------------------------------------------------
(* Saving and loading: the GameState of test_save_game_creation is changed,
   saved with SaveGame::new(..).save() and loaded with SaveGame::load(); in
   between the file may be damaged, cut short, made unreadable or removed *)

\* values written over a byte of the file
DamageBytes == {0, 255}

SaveReputationDeltas == {-100, 1000}
SaveHeatAmounts == {-30, 60}

InitSave ==
    /\ game_state = GameState_new(100)
    /\ save_file = SaveFile_absent
    /\ event_manager = EventManager_new
    /\ rep_manager = ReputationManager_idle
    /\ now = 0
    /\ probe = Probe_idle
    /\ call = Call("new", None, None)
    /\ overflow_checks \in BOOLEAN
    /\ panicked = FALSE
    /\ auth_system = AuthSystem_idle
    /\ session = Session_idle
    /\ mission = Mission_idle
    /\ network_map = NetworkMap_new
    /\ steps = 0

SaveCall(op, arg, file, ret) ==
    /\ steps < MaxSaveSteps
    /\ ~panicked
    /\ save_file' = file
    /\ call' = Call(op, arg, ret)
    /\ steps' = steps + 1
    /\ UNCHANGED <<network_map, mission, game_state, event_manager, rep_manager, now,
                   probe, auth_system, session, overflow_checks, panicked>>

\* SaveGame::new(game_state.clone()).save()
CallSave ==
    SaveCall("save", None, save(SaveGame_new(WholeGameState(game_state, 0), now)), Some("Ok"))

CallLoad ==
    SaveCall("load", None, save_file, load(save_file))

\* the positions of the bytes of the file
FilePositions == IF save_file = None THEN {} ELSE DOMAIN save_file[1].data

\* one byte of the file just saved is overwritten with another value
DamageFile(position, byte) ==
    /\ call.op = "save"
    /\ save_file[1].data[position] # byte
    /\ SaveCall("damage", <<position, byte>>,
                Some([save_file[1] EXCEPT !.data[position] = byte]), None)

\* the file loses its last byte
TruncateFile ==
    /\ save_file # None
    /\ save_file[1].data # <<>>
    /\ SaveCall("truncate", None,
                Some([save_file[1] EXCEPT
                        !.data = SubSeq(@, 1, Len(@) - 1)]), None)

\* the file can no longer be read
ProtectFile ==
    /\ save_file # None
    /\ save_file[1].readable
    /\ SaveCall("protect", None, Some([save_file[1] EXCEPT !.readable = FALSE]), None)

\* SaveGame::delete
CallDelete ==
    SaveCall("delete", None, None, Some("Ok"))

NextSave ==
    \/ \E amount \in SaveReputationDeltas : steps < MaxSaveSteps /\ CallAddReputation(amount)
    \/ \E amount \in SaveHeatAmounts : steps < MaxSaveSteps /\ CallIncreaseHeat(amount)
    \/ CallSave
    \/ CallLoad
    \/ \E position \in FilePositions, byte \in DamageBytes : DamageFile(position, byte)
    \/ TruncateFile
    \/ ProtectFile
    \/ CallDelete

SpecSave == InitSave /\ [][NextSave]_vars

-----------------------------------------------------------------------------
(* Commands: a CommandHandler made for a user, as run_terminal_session makes
   it, and command lines run through CommandHandler::execute *)

\* the reputation of the user the handler is made for
CommandReputations == {0, MaxI32 - 12}

\* the command lines: every command of execute, by its name or an alias, with
\* and without arguments, an empty and a blank line, and two lines that name
\* no command
CommandInputs ==
    { "", "   ", "help", "help scan", "scan", "nmap 10.0.0.1", "exploit",
      "exploit 10.0.0.1", "decrypt", "inject", "inject 10.0.0.1 worm", "trace",
      "status", "mission", "darkweb", "firewall", "firewall target",
      "firewall target bypass", "firewall target disable", "clear", "logout",
      "exit", "quit", "disconnect", "dance", "SCAN" }

InitCommands ==
    /\ \E r \in CommandReputations : game_state = GameState_new(r)
    /\ event_manager = EventManager_new
    /\ rep_manager = ReputationManager_idle
    /\ now = 0
    /\ probe = Probe_idle
    /\ call = Call("new", None, None)
    /\ overflow_checks \in BOOLEAN
    /\ panicked = FALSE
    /\ auth_system = AuthSystem_idle
    /\ session = Session_idle
    /\ mission = Mission_idle
    /\ network_map = NetworkMap_new
    /\ save_file = SaveFile_absent
    /\ steps = 0

CallExecute(input) ==
    GameStateCall("execute", Some(input), execute(game_state, input))

NextCommands == \E input \in CommandInputs : CallExecute(input)

SpecCommands == InitCommands /\ [][NextCommands]_vars

-----------------------------------------------------------------------------
(* A long run of actions: a ReputationManager made with new(0) and enough
   add_reputation calls within the window for the streak to pass through
   every row of the multiplier table, with gaps that reset it *)

\* with the base amount 1 the amount added is 1 under every multiplier below
\* 2.0 and 2 under 2.0
RunAmounts == {1}
\* a second and five minutes between two calls
RunElapsedSeconds == {1, 300}

InitRun ==
    /\ rep_manager = ReputationManager_new(0)
    /\ game_state = GameState_new(0)
    /\ event_manager = EventManager_new
    /\ now = 0
    /\ probe = Probe_idle
    /\ call = Call("new", None, None)
    /\ overflow_checks \in BOOLEAN
    /\ panicked = FALSE
    /\ auth_system = AuthSystem_idle
    /\ session = Session_idle
    /\ mission = Mission_idle
    /\ network_map = NetworkMap_new
    /\ save_file = SaveFile_absent
    /\ steps = 0

RunAddReputation(base_amount, elapsed) ==
    /\ ~panicked
    /\ steps < MaxRunSteps
    /\ now' = now + elapsed
    /\ \E o \in rm_add_reputation(rep_manager, base_amount, now') :
         /\ rep_manager' = o.rm
         /\ panicked' = o.panicked
         /\ call' = Call("add_reputation", Some(base_amount), o.ret)
    /\ steps' = steps + 1
    /\ UNCHANGED <<save_file, network_map, mission, session, auth_system, game_state, event_manager, probe, overflow_checks>>

NextRun ==
    \E base_amount \in RunAmounts, elapsed \in RunElapsedSeconds :
        RunAddReputation(base_amount, elapsed)

SpecRun == InitRun /\ [][NextRun]_vars

-----------------------------------------------------------------------------
(* Properties *)

NoDuplicates(seq) == \A i, j \in 1..Len(seq) : seq[i] = seq[j] => i = j

\* C1: whatever the magnitude and sign of the arguments of increase_heat and
\* decrease_heat, the heat level stays within [0, 100].
C1_HeatInRange ==
    game_state.heat_level >= 0 /\ game_state.heat_level <= 100 * HeatUnit

\* C2: spend_credits(amount) returns false and leaves the GameState as it was
\* when amount > credits; otherwise it returns true and credits is lower by
\* exactly amount.
C2_SpendCredits ==
    [][ call'.op = "spend_credits" =>
          LET amount == call'.arg[1] IN
          IF amount > game_state.credits
          THEN /\ call'.ret = Some(FALSE)
               /\ game_state' = game_state
          ELSE /\ call'.ret = Some(TRUE)
               /\ ~SubOverflows(game_state.credits, amount)
               /\ game_state'.credits = game_state.credits - amount ]_vars

\* C3: reputation never goes below 0, and add_reputation(delta) sets it to
\* max(0, reputation + delta).
C3_ReputationFloor ==
    /\ [](game_state.reputation >= 0)
    /\ [][ call'.op = "add_reputation" =>
             LET delta == call'.arg[1] IN
             /\ ~panicked'
             /\ ~AddOverflows(game_state.reputation, delta)
             /\ game_state'.reputation = Max(0, game_state.reputation + delta) ]_vars

\* C4: credits never go below 0, whatever add_credits, spend_credits and
\* event resolutions are called with.
C4_CreditsNonNegative ==
    game_state.credits >= 0

\* C5: no mission id is both active and completed, and no id occurs twice in
\* either list.
C5_MissionListsDisjoint ==
    /\ \A i \in 1..Len(game_state.active_missions) :
          ~Contains(game_state.completed_missions, game_state.active_missions[i])
    /\ NoDuplicates(game_state.active_missions)
    /\ NoDuplicates(game_state.completed_missions)

\* a completed id was started again and a different mission is active
C5_Witness ==
    /\ call.op = "start_mission"
    /\ Contains(game_state.completed_missions, call.arg[1])
    /\ Len(game_state.active_missions) >= 1
    /\ Len(game_state.completed_missions) >= 2

C6_Step ==
    LET mission_id == call'.arg[1]
        active == game_state.active_missions
        completed == game_state.completed_missions
        Other(id) == id # mission_id
    IN  /\ call'.op = "start_mission"
             /\ (Contains(active, mission_id) \/ Contains(completed, mission_id))
           => game_state' = game_state
        /\ call'.op = "complete_mission" /\ ~Contains(active, mission_id)
           => game_state' = game_state
        /\ call'.op = "complete_mission" /\ Contains(active, mission_id)
           => /\ game_state'.active_missions = SelectSeq(active, Other)
              /\ game_state'.completed_missions = Append(completed, mission_id)
              /\ game_state'.missions_completed = game_state.missions_completed + 1
        /\ \A id \in MissionIds :
              Contains(completed, id)
              => /\ Contains(game_state'.completed_missions, id)
                 /\ ~Contains(game_state'.active_missions, id)

\* C6: start_mission is a no-op on an active or completed id; complete_mission
\* is a no-op on an id that is not active and otherwise moves the id from
\* active to completed and adds 1 to missions_completed.  So an id is completed
\* at most once, a completed id is never active again, and missions_completed
\* is the length of completed_missions.
C6_MissionTransitions ==
    /\ [](game_state.missions_completed = Len(game_state.completed_missions))
    /\ [](NoDuplicates(game_state.completed_missions))
    /\ [][C6_Step]_vars

\* complete_mission was called a second time on an id completed before
C6_Witness ==
    /\ call.op = "complete_mission"
    /\ Contains(game_state.completed_missions, call.arg[1])
    /\ game_state.completed_missions[Len(game_state.completed_missions)] # call.arg[1]
    /\ game_state.missions_completed = 2

Catalog(mission_id) ==
    CHOOSE m \in Elements(generate_missions) : m.id = mission_id

\* C7: completing an active mission adds the mission's reward_reputation to
\* the reputation and its reward_credits to the credits.
C7_RewardsApplied ==
    [][ /\ call'.op = "complete_mission"
        /\ Contains(game_state.active_missions, call'.arg[1])
        /\ \E m \in Elements(generate_missions) : m.id = call'.arg[1]
        => /\ game_state'.reputation
                = game_state.reputation + Catalog(call'.arg[1]).reward_reputation
           /\ game_state'.credits
                = game_state.credits + Catalog(call'.arg[1]).reward_credits ]_vars

\* C8: current_reputation of the ReputationManager is never negative,
\* whatever add_reputation and remove_reputation are called with.
C8_CurrentReputationNonNegative ==
    rep_manager.current_reputation >= 0

\* C9: the cached level of the ReputationManager is always
\* from_reputation(current_reputation).
C9_LevelCached ==
    rep_manager.level = from_reputation(rep_manager.current_reputation)

\* remove_reputation has taken the manager down a tier
C9_Witness ==
    /\ call.op = "remove_reputation"
    /\ call.arg = Some(150)
    /\ rep_manager.current_reputation = 50
    /\ rep_manager.level = "Wannabe"

\* the lower bounds of the 11 tiers
TierLowerBounds == <<0, 50, 150, 300, 500, 750, 1000, 1500, 2000, 3000, 5000>>

LevelRank(level) == CHOOSE i \in 1..Len(ReputationLevel) : ReputationLevel[i] = level

\* C10: from_reputation(r) is the tier of the highest lower bound that is
\* <= r (a boundary value belongs to the higher tier), it never decreases as
\* r grows, and reputation_requirement(from_reputation(r)) <= r.
C10_LevelBands ==
    /\ [](Len(probe.level) = 1 =>
            /\ probe.level[1] =
                 ReputationLevel[Cardinality({ i \in 1..Len(TierLowerBounds) :
                                                  TierLowerBounds[i] <= probe.r })]
            /\ probe.requirement[1] <= probe.r)
    /\ [][ Len(probe.level) = 1 /\ Len(probe'.level) = 1 /\ probe'.r >= probe.r
           => LevelRank(probe'.level[1]) >= LevelRank(probe.level[1]) ]_vars

\* a boundary value was looked up and lies in the higher tier
C10_Witness ==
    /\ probe.r = 5000
    /\ probe.level = Some("Mythical")
    /\ probe.requirement = Some(5000)

\* base_amount * multiplier rounded to the nearest integer (halves away from
\* zero), as Some(value), or None when the result is no i32
RoundedProduct(base_amount, multiplier) ==
    IF base_amount = MaxI32 \/ base_amount = MinI32
    THEN IF multiplier = 100 THEN Some(base_amount) ELSE None
    ELSE IF base_amount >= 0 THEN Some((base_amount * multiplier + 50) \div 100)
    ELSE Some(-(((-base_amount) * multiplier + 50) \div 100))

\* C11: add_reputation(base) returns final = base * multiplier rounded to the
\* nearest integer, with the multiplier in effect at the call; it adds final
\* to current_reputation, and to lifetime_reputation only when final > 0.
\* ReputationManager::new(100) followed by add_reputation(100) has
\* current_reputation 200 and level ScriptKiddie.
C11_AddReputation ==
    [][ call'.op = "add_reputation" =>
          LET rounded == RoundedProduct(call'.arg[1], rep_manager.multiplier) IN
          /\ ~panicked'
          /\ call'.ret = rounded
          /\ ~AddOverflows(rep_manager.current_reputation, rounded[1])
          /\ rep_manager'.current_reputation
                = rep_manager.current_reputation + rounded[1]
          /\ IF rounded[1] > 0
             THEN /\ ~AddOverflows(rep_manager.lifetime_reputation, rounded[1])
                  /\ rep_manager'.lifetime_reputation
                        = rep_manager.lifetime_reputation + rounded[1]
             ELSE rep_manager'.lifetime_reputation = rep_manager.lifetime_reputation
          /\ rep_manager = ReputationManager_new(100) /\ call'.arg = Some(100)
             => /\ rep_manager'.current_reputation = 200
                /\ rep_manager'.level = "ScriptKiddie" ]_vars

\* C12: of two consecutive add_reputation calls, the second adds exactly 1 to
\* streak and does not lower multiplier when it comes less than 300 seconds
\* after the first, and resets streak to 0 and multiplier to 1.0 when it comes
\* 300 seconds or more after it; either way last_action becomes the time of
\* the second call.
C12_StreakWindow ==
    [][ /\ call.op = "add_reputation"
        /\ call'.op = "add_reputation"
        /\ ~panicked'
        => /\ IF now' - now < 300
              THEN /\ rep_manager'.streak = rep_manager.streak + 1
                   /\ rep_manager'.multiplier >= rep_manager.multiplier
              ELSE /\ rep_manager'.streak = 0
                   /\ rep_manager'.multiplier = 100
           /\ rep_manager'.last_action = Some(now') ]_vars

\* four add_reputation calls 299, 299, 300 and 299 seconds apart: the streak
\* was counted, reset by the third call and counted again
C12_Witness ==
    /\ call.op = "add_reputation"
    /\ steps = 4
    /\ now = 299 + 299 + 300 + 299
    /\ rep_manager.streak = 1
    /\ rep_manager.lifetime_reputation = rep_manager.current_reputation
    /\ rep_manager.current_reputation = 400

\* every call made so far is an update_streak 299 seconds after the one
\* before: no add_reputation(100) has moved current_reputation from 0, and the
\* clock shows steps gaps of 299 seconds
OnlyUpdatesInWindow ==
    /\ call.op \in {"new", "update_streak"}
    /\ rep_manager.current_reputation = 0
    /\ now = 299 * steps

\* C13: k consecutive streak updates of a fresh ReputationManager, each
\* within the 300-second window, give streak = k; 5 of them give streak 5 and
\* multiplier 1.1, and the add_reputation(100) that follows returns 110.
C13_StreakCount ==
    /\ [](OnlyUpdatesInWindow
            => /\ rep_manager.streak = steps
               /\ steps = 5 => rep_manager.multiplier = 110)
    /\ [][ /\ OnlyUpdatesInWindow
           /\ steps = 5
           /\ call'.op = "add_reputation"
           => call'.ret = Some(110) ]_vars

\* C14: remove_reputation(amount) sets current_reputation to
\* max(0, current_reputation - amount), recomputes level, and resets streak to
\* 0 and multiplier to 1.0 whatever they were; lifetime_reputation and
\* last_action stay as they were.
C14_RemoveReputation ==
    [][ call'.op = "remove_reputation" =>
          LET amount == call'.arg[1] IN
          /\ ~panicked'
          /\ ~SubOverflows(rep_manager.current_reputation, amount)
          /\ rep_manager'.current_reputation
                = Max(0, rep_manager.current_reputation - amount)
          /\ rep_manager'.level = from_reputation(rep_manager'.current_reputation)
          /\ rep_manager'.streak = 0
          /\ rep_manager'.multiplier = 100
          /\ rep_manager'.lifetime_reputation = rep_manager.lifetime_reputation
          /\ rep_manager'.last_action = rep_manager.last_action ]_vars

\* C15: once handle_choice(event_id, i) has run, a second handle_choice with
\* the same event_id changes neither active_events nor the GameState.
C15_ResolveTwice ==
    [][ /\ call.op = "handle_choice"
        /\ call'.op = "handle_choice"
        /\ call'.arg[1] = call.arg[1]
        => /\ event_manager'.active_events = event_manager.active_events
           /\ game_state' = game_state ]_vars

\* the step is a handle_choice call that finds its event and a choice whose
\* cost is Credits(n) with n above the player's credits
CreditVeto ==
    /\ call'.op = "handle_choice"
    /\ EventPosition(event_manager.active_events, call'.arg[1]) # 0
    /\ LET event == event_manager.active_events[
                       EventPosition(event_manager.active_events, call'.arg[1])]
       IN  /\ call'.arg[2] < Len(event.choices)
           /\ LET cost == event.choices[call'.arg[2] + 1].cost IN
              /\ Len(cost) = 1
              /\ cost[1].type = "Credits"
              /\ game_state.credits < cost[1].n

\* C16: when the chosen choice costs Credits(n) and the player has fewer than
\* n credits, handle_choice applies no outcome and leaves credits and every
\* other GameState field as they were, and the event is still removed from
\* active_events.
C16_InsufficientCredits ==
    [][ CreditVeto
        => /\ game_state' = game_state
           /\ event_manager'.active_events
                = Remove(event_manager.active_events,
                         EventPosition(event_manager.active_events, call'.arg[1])) ]_vars

\* with 40 credits the choice of trace_initiated that costs Credits(100) was
\* taken: the credits are still 40 and the event is gone
C16_Witness ==
    /\ call.op = "handle_choice"
    /\ call.arg = <<"trace_initiated", 0>>
    /\ Len(event_manager.event_history) = 1
    /\ event_manager.active_events = <<>>
    /\ game_state.credits = 40
    /\ game_state.heat_level = 90 * HeatUnit

\* C17: the caller of handle_choice can tell a choice vetoed for lack of
\* credits from a successful resolution by the value returned: the veto does
\* not return the Ok(()) a successful resolution returns.
C17_VetoReported ==
    [][ CreditVeto => call'.ret # Some("Ok") ]_vars

\* C18: handle_choice with an event_id that no active event has changes
\* neither the EventManager nor the GameState; with the id of an active event
\* and a choice_index that is not below the number of choices it removes the
\* event from active_events and changes nothing in the GameState.
C18_UnknownEventOrChoice ==
    [][ call'.op = "handle_choice" =>
          LET event_idx == EventPosition(event_manager.active_events, call'.arg[1]) IN
          IF event_idx = 0
          THEN /\ event_manager' = event_manager
               /\ game_state' = game_state
          ELSE call'.arg[2] >= Len(event_manager.active_events[event_idx].choices)
               => /\ event_manager'.active_events
                       = Remove(event_manager.active_events, event_idx)
                  /\ game_state' = game_state ]_vars

\* system_lockdown has two choices; it was answered with choice_index 2 and
\* is no longer active, with heat and credits as they were
C18_Witness ==
    /\ call.op = "handle_choice"
    /\ call.arg = <<"system_lockdown", 2>>
    /\ steps = 3
    /\ Len(event_manager.event_history) = 1
    /\ event_manager.active_events = <<>>
    /\ game_state.heat_level = 90 * HeatUnit
    /\ game_state.credits = 1000

EventIds(pool) == { event.id : event \in Elements(pool) }

\* C19: an event generated at heat_level > 75.0 is trace_initiated or
\* system_lockdown, whatever the reputation; otherwise an event generated at
\* reputation > 1000 is elite_invitation or black_market_deal; otherwise it
\* comes from the general opportunity or threat pool.  heat_level = 75.0 and
\* reputation = 1000 do not select the high pools.
C19_PoolPriority ==
    [][ call'.op = "generate_event" /\ Len(call'.ret) = 1 =>
          LET id == call'.ret[1].id IN
          /\ game_state.heat_level > 75 * HeatUnit
             => id \in {"trace_initiated", "system_lockdown"}
          /\ game_state.heat_level <= 75 * HeatUnit /\ game_state.reputation > 1000
             => id \in {"elite_invitation", "black_market_deal"}
          /\ game_state.heat_level <= 75 * HeatUnit /\ game_state.reputation <= 1000
             => id \in EventIds(opportunity_events) \cup EventIds(threat_events) ]_vars

\* the first event was generated at heat 90 and reputation 1100: it is from
\* the high-heat pool
C19_Witness ==
    /\ call.op = "generate_event"
    /\ Len(call.ret) = 1
    /\ call.ret[1].id \in {"trace_initiated", "system_lockdown"}
    /\ game_state.heat_level = 90 * HeatUnit
    /\ game_state.reputation = 1100
    /\ Len(event_manager.event_history) = 1

\* C20: a generate_event call that returns an event has appended that event
\* to active_events and to event_history, each longer by exactly 1, and has
\* set last_event_time; with event_chance = 1.0 every call returns an event.
C20_EventRecorded ==
    [][ call'.op = "generate_event" =>
          /\ Len(call'.ret) = 1
             => /\ event_manager'.active_events
                     = Append(event_manager.active_events, call'.ret[1])
                /\ event_manager'.event_history
                     = Append(event_manager.event_history, call'.ret[1])
                /\ event_manager'.last_event_time = Some(now')
          /\ event_manager.event_chance = 100 => Len(call'.ret) = 1 ]_vars

\* with event_chance 1.0 a second event was generated while the first was
\* still active
C20_Witness ==
    /\ call.op = "generate_event"
    /\ event_manager.event_chance = 100
    /\ Len(call.ret) = 1
    /\ Len(event_manager.active_events) = 2
    /\ Len(event_manager.event_history) = 2
    /\ event_manager.active_events[2] = call.ret[1]
    /\ event_manager.last_event_time = Some(2)

IsPrefix(s, t) == Len(s) <= Len(t) /\ \A i \in 1..Len(s) : s[i] = t[i]

\* how often event occurs in events
Occurrences(events, event) == Cardinality({ i \in 1..Len(events) : events[i] = event })

C21_Step ==
    /\ IsPrefix(event_manager.event_history, event_manager'.event_history)
    /\ call'.op # "handle_choice"
       => IsPrefix(event_manager.active_events, event_manager'.active_events)
    /\ call'.op = "handle_choice"
       => /\ Len(event_manager'.active_events) >= Len(event_manager.active_events) - 1
          /\ \A event \in Elements(event_manager'.active_events) :
                Occurrences(event_manager'.active_events, event)
                  <= Occurrences(event_manager.active_events, event)
    /\ Len(event_manager'.active_events) > Len(event_manager.active_events)
       => \E event \in Elements(event_manager'.event_history) :
             /\ event_manager'.event_history = Append(event_manager.event_history, event)
             /\ event_manager'.active_events = Append(event_manager.active_events, event)

\* C21: event_history only grows at its end, and every active event is in
\* it.  Only handle_choice takes an event out of active_events, one per call
\* at most, and no elapsed time_limit does; an event that was taken out stays
\* in event_history and is not put back: whatever enters active_events is a
\* new event that enters event_history in the same call.
C21_EventLog ==
    /\ [](\A event \in Elements(event_manager.active_events) :
            Occurrences(event_manager.active_events, event)
              <= Occurrences(event_manager.event_history, event))
    /\ [][C21_Step]_vars

\* honeypot (time_limit 15) was generated at second 1 and is still active at
\* second 62, after a later event was generated and resolved
C21_Witness ==
    /\ call.op = "handle_choice"
    /\ now = 62
    /\ Len(event_manager.event_history) = 2
    /\ event_manager.event_history[1].id = "honeypot"
    /\ event_manager.event_history[1].time_limit = Some(15)
    /\ event_manager.event_history[2].id # "honeypot"
    /\ event_manager.active_events = <<event_manager.event_history[1]>>

\* C22: when heat_level is at 100 after the command of a turn, the session
\* ends in that turn with the current user of the AuthSystem cleared, and a
\* session that has ended executes no command.
C22_BustedEndsSession ==
    /\ [][ call'.op = "execute" /\ ~panicked' /\ game_state'.heat_level >= 100 * HeatUnit
           => /\ ~session'.running
              /\ auth_system'.current_user = None ]_vars
    /\ [][ ~session.running => game_state' = game_state /\ session' = session ]_vars
    /\ [](game_state.heat_level >= 100 * HeatUnit => ~session.running)

\* the third firewall command took the heat to 100 and the session is over
C22_Witness ==
    /\ call.op = "execute"
    /\ call.arg = Some("firewall target disable")
    /\ game_state.heat_level = 100 * HeatUnit
    /\ ~session.running
    /\ auth_system.current_user = None
    /\ steps = 3

\* C23: every event that generate_event returns during a session is
\* forwarded with a choice to handle_choice and so is eventually resolved:
\* whenever events are active, a later state has none active.
C23_EventsResolved ==
    (event_manager.active_events # <<>>) ~> (event_manager.active_events = <<>>)

all_completed(m) == \A k \in DOMAIN m.objectives : m.objectives[k].is_completed

\* C24: in every state of a Mission reached through Mission::new,
\* add_objective and update_objective, is_completed is true exactly when
\* every objective of the mission is completed.  Stated for the missions
\* that have an objective; in a mission without objectives "every
\* objective" holds of nothing.
C24_CompletedIffAll ==
    mission.objectives # <<>> =>
        (mission.is_completed <=> all_completed(mission))

\* the step is update_objective(id, delta) on the objective at index k
UpdatesObjective(k) ==
    /\ call'.op = "update_objective"
    /\ k \in DOMAIN mission.objectives
    /\ mission.objectives[k].id = call'.arg[1]

\* C25: update_objective(id, delta) adds delta to the progress of the
\* objective with saturation at u32::MAX, so the progress never wraps and
\* never decreases, and in every state of a mission built with add_objective
\* and update_objective each objective has is_completed true exactly when
\* its progress >= its required.
C25_ObjectiveProgress ==
    /\ [][ \A k \in DOMAIN mission.objectives :
             UpdatesObjective(k) =>
                LET before == mission.objectives[k].progress
                    after == mission'.objectives[k].progress
                    sum == U32Carry(before, call'.arg[2])
                IN  /\ after = IF sum.carry = 1 THEN U32Max ELSE sum.v
                    /\ U32Leq(before, after) ]_vars
    /\ [](\A k \in DOMAIN mission.objectives :
             mission.objectives[k].is_completed
                <=> U32Leq(mission.objectives[k].required,
                           mission.objectives[k].progress))

\* the f32 nearest to the fraction a / b, for whole numbers a and b with
\* a = 0 or 4 <= a / b < 128
F32Nearest(a, b) ==
    IF a = 0 THEN F32Zero
    ELSE LET d == LongDiv(a \div b, a % b, b, 22)
         IN  F32Round(d.q, -22, d.r # 0)

RECURSIVE SumSeq(_)
SumSeq(seq) == IF seq = <<>> THEN 0 ELSE seq[1] + SumSeq(Tail(seq))

\* every `required` of the mission is below 2^16
SmallRequireds(m) == \A k \in DOMAIN m.objectives : m.objectives[k].required.hi = 0

\* the sum of min(progress, required) and the sum of required, as numbers,
\* of a mission with SmallRequireds
TotalProgress(m) ==
    SumSeq([k \in DOMAIN m.objectives |->
               U32Min(m.objectives[k].progress, m.objectives[k].required).lo])

TotalRequired(m) == SumSeq([k \in DOMAIN m.objectives |-> m.objectives[k].required.lo])

\* the total of `required` is 0
NothingRequired(m) == \A k \in DOMAIN m.objectives : m.objectives[k].required = U32(0)

\* every objective has progress >= required
AllReached(m) ==
    \A k \in DOMAIN m.objectives :
        U32Leq(m.objectives[k].required, m.objectives[k].progress)

\* C26: get_completion_percentage() returns
\* (sum of min(progress, required)) / (sum of required) * 100, and 0 for a
\* mission with no objectives or with total required 0; the result lies in
\* [0, 100], is 100 exactly when every objective has progress >= required,
\* and never decreases under update_objective.  The result is compared
\* with the f32 nearest to the fraction, for the missions whose requireds
\* are below 2^16.
C26_CompletionPercentage ==
    [][ /\ call'.op = "get_completion_percentage" =>
            /\ ~panicked'
            /\ LET pct == call'.ret[1] IN
               /\ F32Leq(pct, F32(100))
               /\ NothingRequired(mission) => pct = F32Zero
               /\ SmallRequireds(mission) /\ ~NothingRequired(mission) =>
                     pct = F32Nearest(100 * TotalProgress(mission), TotalRequired(mission))
               /\ ~NothingRequired(mission) =>
                     (pct = F32(100) <=> AllReached(mission))
        /\ call'.op = "update_objective" =>
            \A before \in get_completion_percentage(mission),
               after \in get_completion_percentage(mission') :
                ~before.panicked /\ ~after.panicked =>
                    F32Leq(before.ret[1], after.ret[1]) ]_vars

\* the heat level lies in [0, 100]
HeatInRange(gs) == gs.heat_level >= 0 /\ gs.heat_level <= 100 * HeatUnit

\* C27: apply_heat_decay(rate) with a rate in (0, 1] replaces heat_level by
\* heat_level * rate (to the hundredth of a degree), keeps a heat level that
\* is within [0, 100] within [0, 100], and never increases the heat level.
C27_HeatDecay ==
    [][ call'.op = "apply_heat_decay" =>
          LET rate == call'.arg[1] IN
          /\ game_state'.heat_level = TruncDiv(game_state.heat_level * rate, 100)
          /\ HeatInRange(game_state) => HeatInRange(game_state')
          /\ game_state'.heat_level <= game_state.heat_level ]_vars

\* the connections between a and b, in either direction
ConnectionsBetween(map, a, b) ==
    {i \in DOMAIN map.connections :
        \/ map.connections[i] = [from |-> a, to |-> b]
        \/ map.connections[i] = [from |-> b, to |-> a]}

\* C28: after any sequence of add_node and add_connection calls no two nodes
\* share an ip and the connections are a set of unordered pairs: between two
\* addresses there is at most one connection, whichever way round it was
\* added and however often, and get_connected_nodes returns each neighbour
\* at most once.
C28_NetworkMap ==
    /\ [](\A i, j \in DOMAIN network_map.discovered_nodes :
             network_map.discovered_nodes[i].ip = network_map.discovered_nodes[j].ip
                => i = j)
    /\ [](\A a, b \in ConnectionIps :
             Cardinality(ConnectionsBetween(network_map, a, b)) <= 1)
    /\ [][call'.op = "get_connected_nodes" => NoDuplicates(call'.ret)]_vars

\* the stored account
Account == auth_system.storage["agent"][1]

\* the step is a failed attempt on the account: a login with a wrong password
\* while the account is not locked, or record_failed_attempt
FailedAttempt ==
    \/ call'.op = "record_failed_attempt"
    \/ /\ call'.op = "login"
       /\ call'.arg = <<"agent", "wrongpassword">>
       /\ ~is_locked(Account)

\* the step is a successful login or an unlock
LoginOrUnlock ==
    \/ call'.op = "unlock"
    \/ call'.op = "login" /\ call'.ret.ok

\* C30: failed_attempts counts the failed attempts since the last successful
\* login or unlock, the account is locked exactly when that count has reached
\* 5, and it is not locked right after unlock(); AuthSystem::login on a
\* locked account fails whatever the password and leaves the stored
\* failed_attempts and is_active as they were.
C30_AccountLock ==
    /\ [](is_locked(Account) <=> Account.failed_attempts >= 5)
    /\ [][ /\ FailedAttempt =>
                auth_system'.storage["agent"][1].failed_attempts
                    = Account.failed_attempts + 1
           /\ LoginOrUnlock =>
                /\ auth_system'.storage["agent"][1].failed_attempts = 0
                /\ ~is_locked(auth_system'.storage["agent"][1])
           /\ call'.op \in {"login", "logout"} /\ ~FailedAttempt /\ ~LoginOrUnlock =>
                auth_system'.storage = auth_system.storage
           /\ call'.op = "login" /\ call'.arg[1] = "agent" /\ is_locked(Account) =>
                /\ ~call'.ret.ok
                /\ auth_system'.storage["agent"][1].failed_attempts
                     = Account.failed_attempts
                /\ auth_system'.storage["agent"][1].is_active = Account.is_active ]_vars

\* a login with a wrong password has just been refused on the account locked
\* by five failed attempts, and the stored count is still 5
C30_Witness ==
    /\ call.op = "login"
    /\ call.arg = <<"agent", "wrongpassword">>
    /\ call.ret = LoginErr("Account is locked")
    /\ Account.failed_attempts = 5
    /\ ~Account.is_active

\* C29: a load right after a save returns the SaveGame that was saved, with
\* the same GameState, for every state reached; a load when there is no save
\* file returns Ok(None); and a load of a file that cannot be read or that
\* was damaged or cut short after it was saved returns an error.
C29_SaveLoad ==
    [][ call'.op = "load" =>
          /\ call.op = "save" =>
                call'.ret = LoadOk(Some(SaveGame_new(WholeGameState(game_state, 0), now)))
          /\ save_file = None => call'.ret = LoadOk(None)
          /\ call.op \in {"damage", "truncate", "protect"} => ~call'.ret.ok ]_vars


\* the step is a handle_choice call that finds its event and a choice whose
\* cost is not Credits(n)
CostNotCredits ==
    /\ call'.op = "handle_choice"
    /\ EventPosition(event_manager.active_events, call'.arg[1]) # 0
    /\ LET event == event_manager.active_events[
                       EventPosition(event_manager.active_events, call'.arg[1])]
       IN  /\ call'.arg[2] < Len(event.choices)
           /\ LET cost == event.choices[call'.arg[2] + 1].cost IN
              Len(cost) = 1 => cost[1].type \in {"Reputation", "Heat", "Time"}

\* the GameState once the cost is paid: Reputation(n) takes n from the
\* reputation down to 0 at most, Heat(n) adds n to the heat up to 100 at
\* most, Time(s) and no cost change nothing
AfterCost(gs, cost) ==
    IF Len(cost) = 0 THEN gs
    ELSE CASE cost[1].type = "Reputation" ->
                [gs EXCEPT !.reputation = Max(gs.reputation - cost[1].n, 0)]
           [] cost[1].type = "Heat" ->
                [gs EXCEPT !.heat_level =
                    Min(gs.heat_level + cost[1].n * HeatUnit, 100 * HeatUnit)]
           [] OTHER -> gs

\* C31: in handle_choice the costs Reputation(n), Heat(n) and Time(s) never
\* veto: Reputation(n) subtracts n from the reputation with a floor of 0,
\* Heat(n) adds n to the heat capped at 100, Time(s) changes no state, and
\* the outcome of the choice is then applied to the GameState so changed;
\* only a Credits(n) cost can have the outcome skipped.
C31_CostNeverVetoes ==
    [][ CostNotCredits =>
          LET event == event_manager.active_events[
                          EventPosition(event_manager.active_events, call'.arg[1])]
              choice == event.choices[call'.arg[2] + 1]
          IN  \E o \in apply_outcome(AfterCost(game_state, choice.cost), choice.outcome) :
                 /\ game_state' = o.gs
                 /\ panicked' = o.panicked ]_vars

\* with reputation 0 and heat 90 or more the choice of trace_initiated that
\* costs Reputation(20) was taken: the reputation is still 0 and the heat is
\* lower by the 50 of its outcome
C31_Witness ==
    /\ call.op = "handle_choice"
    /\ call.arg = <<"trace_initiated", 1>>
    /\ Len(event_manager.event_history) = 1
    /\ event_manager.active_events = <<>>
    /\ game_state.reputation = 0
    /\ game_state.heat_level = 40 * HeatUnit

\* the tags handle_special_outcome has an arm for
special_resolutions == {"negotiation", "race_rival", "ai_battle"}

\* the GameStates the win and the lose branch of a sub-resolution lead to
SpecialBranches(gs, tag) ==
    CASE tag = "negotiation" ->
            { [gs EXCEPT !.credits = gs.credits + 250], gs }
      [] tag = "race_rival" ->
            { [gs EXCEPT !.reputation = gs.reputation + 30,
                         !.credits = gs.credits + 300],
              [gs EXCEPT !.reputation = Max(gs.reputation - 10, 0)] }
      [] tag = "ai_battle" ->
            { [gs EXCEPT !.reputation = gs.reputation + 100,
                         !.discovered_exploits =
                            IF Contains(gs.discovered_exploits, "AI_Slayer")
                            THEN gs.discovered_exploits
                            ELSE Append(gs.discovered_exploits, "AI_Slayer")],
              [gs EXCEPT !.heat_level = Min(gs.heat_level + 50 * HeatUnit, 100 * HeatUnit)] }
      [] OTHER -> {}

\* the step is a handle_choice call that finds its event and a choice whose
\* outcome is Special(tag)
ResolvesSpecial ==
    /\ call'.op = "handle_choice"
    /\ EventPosition(event_manager.active_events, call'.arg[1]) # 0
    /\ LET event == event_manager.active_events[
                       EventPosition(event_manager.active_events, call'.arg[1])]
       IN  /\ call'.arg[2] < Len(event.choices)
           /\ event.choices[call'.arg[2] + 1].outcome.type = "Special"

\* C32: resolving a choice whose outcome is Special(tag), for every tag of
\* the event templates, dispatches to a named sub-resolution, which applies
\* exactly one of its win and lose branches to the GameState (race_rival:
\* reputation +30 and credits +300, or reputation -10 floored at 0;
\* ai_battle: reputation +100 and exploit AI_Slayer discovered, or heat +50
\* capped at 100; negotiation: credits +250, or nothing).
C32_SpecialResolved ==
    [][ ResolvesSpecial =>
          LET event == event_manager.active_events[
                          EventPosition(event_manager.active_events, call'.arg[1])]
              choice == event.choices[call'.arg[2] + 1]
          IN  /\ choice.outcome.s \in special_resolutions
              /\ game_state' \in
                    SpecialBranches(AfterCost(game_state, choice.cost), choice.outcome.s) ]_vars

\* the EventManager after one generate_event call whose trigger check was
\* made with the given draw: unchanged when the check fails, and with one
\* event more, generated now, when it succeeds
AfterTriggerCheck(em, draw, em2, time) ==
    IF should_trigger_event(em, draw)
    THEN /\ Len(em2.event_history) = Len(em.event_history) + 1
         /\ LET event == em2.event_history[Len(em2.event_history)] IN
            em2 = [em EXCEPT !.event_history = Append(em.event_history, event),
                             !.active_events = Append(em.active_events, event),
                             !.last_event_time = Some(time)]
    ELSE em2 = em

\* C33: exactly one trigger check is made per turn of the session loop: a
\* turn changes the EventManager as one generate_event call with one draw
\* does, and when the check fails active_events, event_history and
\* last_event_time are unchanged.
C33_OneTriggerCheck ==
    [][ call'.op = "execute" =>
          \E draw \in TriggerDraws :
             AfterTriggerCheck(event_manager, draw, event_manager', now') ]_vars

\* two turns: the check of the first succeeded and an event was generated,
\* the check of the second failed and the EventManager is as it was
C33_Witness ==
    /\ call.op = "execute"
    /\ steps = 2
    /\ now = 2
    /\ Len(event_manager.event_history) = 1
    /\ Len(event_manager.active_events) = 1
    /\ event_manager.last_event_time = Some(1)

\* C34: during a terminal session, after every command whose result is
\* neither Logout nor Exit, the reputation stored in the auth system for the
\* user of the session equals the reputation of the session's GameState: the
\* synchronisation of each turn counts no reputation gain twice.
C34_ReputationSynchronised ==
    [][ /\ call'.op = "execute"
        /\ ~panicked'
        /\ call'.ret \notin {Some("Logout"), Some("Exit")}
        => auth_system'.storage[session.user[1].username][1].reputation
             = game_state'.reputation ]_vars

\* the commands that only write to the terminal, the empty line, and the
\* lines that name no command
QuietCommands == {"", "help", "status", "mission", "clear", "dance", "SCAN"}

\* C35: for any sequence of commands run through CommandHandler::execute,
\* only reputation and heat_level of the GameState change: reputation never
\* decreases, heat_level is only raised and stays <= 100, and every other
\* field keeps its value; an empty line, an unknown command, help, status,
\* mission and clear change nothing, and logout, exit, quit and disconnect
\* return Logout without changing the state.
C35_ExecuteFrame ==
    [][ call'.op = "execute" /\ ~panicked' =>
          LET command == parse_args(call'.arg[1]).command IN
          /\ game_state' = [game_state EXCEPT !.reputation = game_state'.reputation,
                                              !.heat_level = game_state'.heat_level]
          /\ game_state'.reputation >= game_state.reputation
          /\ game_state'.heat_level >= game_state.heat_level
          /\ game_state'.heat_level <= 100 * HeatUnit
          /\ command \in QuietCommands
             => game_state' = game_state /\ call'.ret = Some("Continue")
          /\ command \in {"logout", "exit", "quit", "disconnect"}
             => game_state' = game_state /\ call'.ret = Some("Logout") ]_vars

\* the multiplier of a streak, in hundredths
StepTable(streak) ==
    IF streak <= 4 THEN 100
    ELSE IF streak <= 9 THEN 110
    ELSE IF streak <= 19 THEN 125
    ELSE IF streak <= 29 THEN 150
    ELSE IF streak <= 49 THEN 175
    ELSE 200

\* C36: in every reachable ReputationManager state multiplier is the step
\* table applied to streak (0-4: 1.0, 5-9: 1.1, 10-19: 1.25, 20-29: 1.5,
\* 30-49: 1.75, 50 and above: 2.0), hence multiplier >= 1.0; and an
\* add_reputation call uses the multiplier in effect before its own streak
\* update.
C36_MultiplierTable ==
    /\ [](/\ rep_manager.multiplier = StepTable(rep_manager.streak)
          /\ rep_manager.multiplier >= 100)
    /\ [][ call'.op = "add_reputation" /\ ~panicked'
           => call'.ret = Some(final_amount(call'.arg[1], rep_manager.multiplier)) ]_vars

\* the call that took the streak from 49 to 50 and the multiplier from 1.75
\* to 2.0 added 1, the amount under 1.75
C36_Witness ==
    /\ call.op = "add_reputation"
    /\ call.ret = Some(1)
    /\ rep_manager.streak = 50
    /\ rep_manager.multiplier = 200

\* C37: for every sequence of add_reputation and remove_reputation calls,
\* lifetime_reputation never decreases, and lifetime_reputation >=
\* current_reputation holds after every call.
C37_LifetimeReputation ==
    /\ [][ rep_manager'.lifetime_reputation >= rep_manager.lifetime_reputation ]_vars
    /\ [](rep_manager.lifetime_reputation >= rep_manager.current_reputation)

\* C38: the two tables from reputation to tier agree up to the top band: for
\* every reputation r >= 0, get_level() is min(10, 1 + the position of
\* from_reputation(r) in the tier list Nobody..Mythical, counted from 0);
\* get_level() never decreases as r grows and lies in 1..10 (0 gives 1
\* "Newbie", 500 gives 5 "Skilled Hacker", 2000 gives 9 "Legendary Hacker"),
\* and get_level_title() is never "Unknown".
C38_LevelTables ==
    /\ [](Len(probe.level) = 1 =>
            /\ probe.get_level[1] = Min(10, LevelRank(probe.level[1]))
            /\ probe.get_level[1] \in 1..10
            /\ probe.get_level_title[1] # "Unknown"
            /\ probe.r = 0
               => probe.get_level[1] = 1 /\ probe.get_level_title[1] = "Newbie"
            /\ probe.r = 500
               => probe.get_level[1] = 5 /\ probe.get_level_title[1] = "Skilled Hacker"
            /\ probe.r = 2000
               => probe.get_level[1] = 9 /\ probe.get_level_title[1] = "Legendary Hacker")
    /\ [][ Len(probe.level) = 1 /\ Len(probe'.level) = 1 /\ probe'.r >= probe.r
           => probe'.get_level[1] >= probe.get_level[1] ]_vars

\* a reputation of the top tier, Mythical, was looked up: get_level gives 10
\* as it does for the tier below
C38_Witness ==
    /\ probe.r = 5000
    /\ probe.level = Some("Mythical")
    /\ probe.get_level = Some(10)
    /\ probe.get_level_title = Some("Ghost")

\* C39: whenever run_terminal_session has returned (after a logout command
\* or after the busted check), no user is authenticated in the auth system;
\* the CommandResult::Exit branch, which ends the session without a logout,
\* is never taken, because CommandHandler::execute never returns Exit.
C39_SessionEndsLoggedOut ==
    /\ [](~session.running /\ Len(session.user) = 1
            => auth_system.current_user = None)
    /\ [](call.op = "execute" => call.ret # Some("Exit"))

\* the session of a logged-in user ended with the command exit: execute
\* returned Logout and nobody is logged in
C39_Witness ==
    /\ call.op = "execute"
    /\ call.arg = Some("exit")
    /\ call.ret = Some("Logout")
    /\ Len(session.user) = 1
    /\ ~session.running
    /\ auth_system.current_user = None

\* C40: update_objective called with an objective id that no objective of
\* the mission has leaves the whole Mission unchanged: the progress and
\* is_completed of every objective and the is_completed of the mission; this
\* includes a mission that has no objectives.
C40_UnknownObjective ==
    [][ /\ call'.op = "update_objective"
        /\ \A k \in DOMAIN mission.objectives :
              mission.objectives[k].id # call'.arg[1]
        => mission' = mission ]_vars
====
